---- MODULE Spec2Model ----
(***************************************************************************)
(* Verification model of the VidyaAI multi-language chatbot back end.      *)
(*                                                                         *)
(*   SpecLock   the /chat endpoint of main.py: the per-session Redis lock  *)
(*              (SET NX EX 300), the graph invocation seen as a whole, and *)
(*              the release in the finally block, for several requests.    *)
(*   SpecTurn   one request in detail: the endpoint around the LangGraph   *)
(*              pipeline of graph.py and the nodes it runs.                *)
(*   SpecReact  the tool-calling loop of agents/react_agent.py, and        *)
(*              SpecReactLive, the same with the event loop's fairness.    *)
(*   SpecMem    the two-tier memory of services/chat_memory.py.            *)
(***************************************************************************)
EXTENDS Integers, Sequences, FiniteSets, TLC

(***************************************************************************)
(* Bounds of the model.                                                    *)
(***************************************************************************)
NumRequests == 2
NumSessions == 2

Requests == 1..NumRequests
Sessions == 1..NumSessions

VARIABLES
    \* ---- main.py chat_endpoint, one entry per request -------------------
    reqSession,     \* request.user_session_id
    pc,             \* position of the request inside chat_endpoint
    lock_acquired,  \* the local flag lock_acquired
    outcome,        \* what the HTTP caller gets
    lockKey,        \* Redis: is the key lock:chat:<session> present
    lockOwner,      \* history: the request whose SET created the present key
    degraded,       \* history: the SET of this request raised (degraded mode)
    deleteFailed,   \* history: the DELETE of this request raised
    expiredOnce     \* history: the key of this session expired at least once

lockVars == <<reqSession, pc, lock_acquired, outcome, lockKey, lockOwner,
              degraded, deleteFailed, expiredOnce>>

VARIABLES
    \* ---- one turn in detail (graph.py, nodes/, agents/) ------------------
    user_type,        \* request.user_type
    agent_mode,       \* request.agent_mode
    language,         \* state["language"], the target language of the turn
    validation_mode,  \* settings.validation_mode
    node,             \* the graph node that runs next
    st,               \* the fields of AgentState the routing depends on
    steps,            \* super-steps the graph has executed
    hist              \* history of the turn, read by the properties only

turnVars == <<user_type, agent_mode, language, validation_mode, node, st,
              steps, hist>>

VARIABLES
    \* ---- agents/react_agent.py ReActAgent.run, one run ------------------
    request_filters,     \* the request_filters argument of run
    enforce_sequential,  \* self.enforce_sequential
    rpc,                 \* position inside run
    iteration,           \* the loop variable
    tool_calls,          \* response.tool_calls of the last LLM response
    started,             \* the tool coroutines asyncio.gather has started
    finished,            \* the coroutines of the last batch that ended, in
                         \* the order they ended, each with its result
    scratchpad,          \* the reasoning chain
    tool_messages,       \* the ToolMessages appended by the loop
    loop_llm_calls,      \* history: calls of llm_with_tools.ainvoke
    synthesis_calls,     \* history: calls of llm.ainvoke after the loop
    executions,          \* history: ids of the tool calls executed, in order
    raised_calls,        \* history: the tool calls whose execution raised
    retriever_calls,     \* history: filters the retriever was called with
    run_result           \* what run returned, or the exception that left it

reactVars == <<request_filters, enforce_sequential, rpc, iteration, tool_calls,
               started, finished, scratchpad, tool_messages, loop_llm_calls, synthesis_calls,
               executions, raised_calls, retriever_calls, run_result>>

VARIABLES
    \* ---- services/chat_memory.py, one session ----------------------------
    buffer,         \* Redis list chat:<session>:buffer
    messages,       \* ChatSession.messages in the durable store
    summary_tasks,  \* background_update_summary tasks created so far
    last_buffer_op, \* history: the last add_message on the buffer
    last_log_op,    \* history: the last background_save_message
    appends         \* history, followed in SpecBuffer: tail, the last
                    \* messages add_message was called with and did not drop
                    \* as duplicates; exact, no call was skipped and nothing
                    \* reseeded since the buffer was last empty

memVars == <<buffer, messages, summary_tasks, last_buffer_op, last_log_op,
             appends>>



(***************************************************************************)
(* AgentState (state.py) and the values the routing of a turn depends on   *)
(***************************************************************************)
Languages == {"en", "hi"}
\* config.py: settings.max_iterations (default 5, MAX_ITERATIONS overrides).
max_iterations == 2

\* langgraph: compile() and ainvoke() are called without a config, so the
\* graph stops with GraphRecursionError after the default 25 super-steps.
RecursionLimit == 25

\* A text is modelled by what it is and the language it is written in.
Text(kind, lang) == [kind |-> kind, lang |-> lang]
NoResponse == Text("empty", "en")
FALLBACK_MESSAGE == Text("fallback", "en")
\* Documents and citations carry an id and a score in hundredths.
Doc(id, score) == [id |-> id, score |-> score]
RECURSIVE FilterSeq(_, _)
FilterSeq(q, keep) ==
    IF q = <<>> THEN <<>>
    ELSE IF keep[1] THEN <<Head(q)>> \o FilterSeq(Tail(q), Tail(keep))
    ELSE FilterSeq(Tail(q), Tail(keep))

\* The two lists one after the other.
concat_citations(left, right) == left \o right

\* state.py merge_citations: unique by id, but only when both sides are
\* non-empty.
merge_citations(left, right) ==
    IF left = <<>> THEN right
    ELSE IF right = <<>> THEN left
    ELSE LET combined == left \o right
             first(i) == \A j \in 1..(i - 1) : combined[j].id # combined[i].id
         IN FilterSeq(combined, [i \in 1..Len(combined) |-> first(i)])

InitialState ==
    [ query_type |-> "curriculum_specific",
      response |-> NoResponse,
      citations |-> <<>>,
      documents |-> <<>>,
      llm_calls |-> 0,
      final_language |-> "none",
      validation_results |-> "none",
      is_correction |-> FALSE ]

InitialHist ==
    [ agent_runs |-> 0,       \* invocations of an educational agent
      responders |-> {},      \* the kinds of agent invoked in the turn
      first_agent |-> "none", \* the agent of the first invocation
      last_run |-> [agent |-> "none", raised |-> FALSE, timed_out |-> FALSE,
                    correction |-> FALSE, llm_calls |-> 0],
      fail_edges |-> 0,       \* times the edge Validate -> RouteByRole ran
      retry_cause |-> "none", \* verdict that caused the last retry
      validations |-> 0,      \* validator invocations
      llm_invocations |-> 0,  \* LLM invocations the states of the turn made
      persisted |-> FALSE,    \* save_memory has run
      written |-> <<>>,       \* the messages save_memory handed to memory
      message |-> NoResponse, \* ChatResponse.message
      \* the retrieval step, while it is the last node that ran
      retrieval |-> [ran |-> FALSE, found |-> <<>>, keyword |-> FALSE,
                     speculative |-> FALSE, rag |-> "fast",
                     rag_quality |-> "low", web_search |-> "none"],
      cause |-> "none" ]      \* why the graph stopped without reaching END

\* A stored message: role and text.
Msg(role, content) == [role |-> role, content |-> content]

\* History of an append: the message, whether the store raised (ok), whether
\* the stored list did not end with the message before (fresh), whether the
\* message was written (appended), and whether the append before it on the
\* same store was a successful fresh append of the same message (repeat).
Op(kind, msg, ok, fresh, appended, repeat) ==
    [kind |-> kind, msg |-> msg, ok |-> ok, fresh |-> fresh,
     appended |-> appended, repeat |-> repeat]

NoOp == Op("none", Msg("none", ""), FALSE, FALSE, FALSE, FALSE)

VARIABLES
    \* ---- services/chat_memory.py, loading a session ----------------------
    session_exists,      \* a ChatSession document with this session_id exists
    updated_at,          \* ChatSession.updated_at as the driver hands it over
    now,                 \* datetime.utcnow(), in seconds
    idle_seconds,        \* history: seconds since the session was last updated
    memory_token_limit,  \* settings.memory_token_limit
    loaded               \* what the last load operation returned

loadVars == <<session_exists, updated_at, now, idle_seconds,
              memory_token_limit, loaded>>

VARIABLES
    \* ---- services/chat_memory.py, background_update_summary --------------
    is_summarizing,  \* ChatSession.is_summarizing
    summary,         \* ChatSession.summary
    tpc,             \* position of each summarization task
    tsnap,           \* session.messages as each task read it (its length)
    tlog             \* history of each task, read by the properties only

sumVars == <<is_summarizing, summary, tpc, tsnap, tlog>>

VARIABLES
    \* ---- nodes/save_memory.py, one entry per turn of the session ---------
    response,  \* state["response"] of the turn
    spc,       \* position of the turn inside save_memory and its task
    seen,      \* length of the durable log when the pending
               \* background_save_message call of the turn's task began
    accepted   \* history: the writes of the turn a store has applied

saveVars == <<response, spc, seen, accepted>>

VARIABLES
    \* ---- services/citation_service.py and the citations of a turn --------
    documents_found,  \* what the proactive retrieval of the turn returned
    reasoning_chain,  \* result["reasoning_chain"] of the agent's run
    extracted,        \* what CitationService.extract_citations returned
    min_score_used,   \* the min_score of that call
    turn_citations,   \* AgentState.citations
    tool_steps,       \* tool calls the agent made in this turn
    cpc               \* position: retrieve, loop, done, loop_again, done_again

citeVars == <<documents_found, reasoning_chain, extracted, min_score_used,
              turn_citations, tool_steps, cpc>>

VARIABLES
    \* ---- services/retriever.py RetrieverService.retrieve ------------------
    retrieve_filters, \* the filters argument of the request's retrievals
    result_cache,     \* the retrieval entries of the cache, by query
    last_retrieve     \* history: what the last call of retrieve did

retrVars == <<retrieve_filters, result_cache, last_retrieve>>

svcVars == <<loadVars, sumVars, saveVars, citeVars, retrVars>>

vars == <<lockVars, turnVars, reactVars, memVars, svcVars>>

\* A datetime: seconds on the wall clock of its zone; tz is "naive", the
\* name of a zone, or "none" for a missing value.
Stamp(wall, tz) == [wall |-> wall, tz |-> tz]

\* Nothing was loaded.
NoLoad == [op |-> "none", found |-> FALSE, raised |-> FALSE,
           buffer |-> <<>>, history |-> <<>>, is_restart |-> FALSE]

\* chat_memory.py line 197: a summary every 10 messages, scaled down.
SummaryEvery == 2

\* Longest durable log the model follows.
MaxMessages == SummaryEvery + 2

\* The summarization tasks save operations can create within MaxMessages.
SummaryTasks == 1..(MaxMessages \div SummaryEvery)

\* Turns of one session whose persistence is followed.
NumTurns == 2
Turns == 1..NumTurns

\* The request whose turn is followed in detail.
TurnReq == 1

Running(n) ==
    /\ pc[TurnReq] = "graph"
    /\ node = n
    /\ steps < RecursionLimit

\* A node returned its update and the graph moves on along its edge.
Goto(n) ==
    /\ node' = n
    /\ steps' = steps + 1
    /\ UNCHANGED <<lockVars, user_type, agent_mode, language, validation_mode>>

\* A node raised: graph.ainvoke raises and main.py:433-438 answers HTTP 500.
Raise(cause) ==
    /\ node' = "raised"
    /\ hist' = [hist EXCEPT !.cause = cause]
    /\ outcome' = [outcome EXCEPT ![TurnReq] = "error"]
    /\ pc' = [pc EXCEPT ![TurnReq] = "finally"]
    /\ UNCHANGED <<reqSession, lock_acquired, lockKey, lockOwner, degraded,
                   deleteFailed, expiredOnce>>
    /\ UNCHANGED <<user_type, agent_mode, language, validation_mode, st, steps>>

(***************************************************************************)
(* main.py chat_endpoint                                                   *)
(***************************************************************************)
NoRequest == 0

\* A SET that ignores NX and always reports success.
redis_set_nx_always(present) == TRUE

\* Redis SET key "locked" NX EX 300: sets the key only when it is absent.
redis_set_nx(present) == ~present

\* An endpoint that sets its flag before it looks at the reply of the SET
\* and raises the 409 inside the try block that has the finally.
chat_endpoint_lock_flag_first(r) ==
    /\ pc[r] = "start"
    /\ LET s == reqSession[r] IN
       IF redis_set_nx(lockKey[s])
       THEN /\ lockKey' = [lockKey EXCEPT ![s] = TRUE]
            /\ lockOwner' = [lockOwner EXCEPT ![s] = r]
            /\ pc' = [pc EXCEPT ![r] = "graph"]
            /\ UNCHANGED outcome
       ELSE /\ outcome' = [outcome EXCEPT ![r] = "conflict"]
            /\ pc' = [pc EXCEPT ![r] = "finally"]
            /\ UNCHANGED <<lockKey, lockOwner>>
    /\ lock_acquired' = [lock_acquired EXCEPT ![r] = TRUE]
    /\ UNCHANGED <<reqSession, degraded, deleteFailed, expiredOnce>>

\* lines 301-317: acquire the distributed lock or reject / degrade.
chat_endpoint_lock(r) ==
    /\ pc[r] = "start"
    /\ LET s == reqSession[r] IN
       \E redisUp \in BOOLEAN :
          IF ~redisUp
          THEN \* the SET raised: "Proceeding without lock"
               /\ degraded' = [degraded EXCEPT ![r] = TRUE]
               /\ pc' = [pc EXCEPT ![r] = "graph"]
               /\ UNCHANGED <<lock_acquired, outcome, lockKey, lockOwner>>
          ELSE IF redis_set_nx(lockKey[s])
          THEN /\ lockKey' = [lockKey EXCEPT ![s] = TRUE]
               /\ lockOwner' = [lockOwner EXCEPT ![s] = r]
               /\ lock_acquired' = [lock_acquired EXCEPT ![r] = TRUE]
               /\ pc' = [pc EXCEPT ![r] = "graph"]
               /\ UNCHANGED <<outcome, degraded>>
          ELSE \* HTTP 409, raised before the second try block
               /\ outcome' = [outcome EXCEPT ![r] = "conflict"]
               /\ pc' = [pc EXCEPT ![r] = "done"]
               /\ UNCHANGED <<lock_acquired, lockKey, lockOwner, degraded>>
    /\ UNCHANGED <<reqSession, deleteFailed, expiredOnce>>

\* A release placed after the response instead of in a finally block.
chat_endpoint_release_on_success(r) ==
    /\ pc[r] = "finally"
    /\ LET s == reqSession[r] IN
       IF lock_acquired[r] /\ outcome[r] = "response"
       THEN /\ lockKey' = [lockKey EXCEPT ![s] = FALSE]
            /\ lockOwner' = [lockOwner EXCEPT ![s] = NoRequest]
       ELSE UNCHANGED <<lockKey, lockOwner>>
    /\ pc' = [pc EXCEPT ![r] = "done"]
    /\ UNCHANGED <<reqSession, lock_acquired, outcome, degraded, deleteFailed,
                   expiredOnce>>

\* lines 439-445: the finally block.
chat_endpoint_finally(r) ==
    /\ pc[r] = "finally"
    /\ LET s == reqSession[r] IN
       IF lock_acquired[r]
       THEN \E deleted \in BOOLEAN :
               IF deleted
               THEN /\ lockKey' = [lockKey EXCEPT ![s] = FALSE]
                    /\ lockOwner' = [lockOwner EXCEPT ![s] = NoRequest]
                    /\ UNCHANGED deleteFailed
               ELSE \* the DELETE raised and the exception is swallowed
                    /\ deleteFailed' = [deleteFailed EXCEPT ![r] = TRUE]
                    /\ UNCHANGED <<lockKey, lockOwner>>
       ELSE UNCHANGED <<lockKey, lockOwner, deleteFailed>>
    /\ pc' = [pc EXCEPT ![r] = "done"]
    /\ UNCHANGED <<reqSession, lock_acquired, outcome, degraded, expiredOnce>>

\* Redis drops the key when its EX 300 time to live has run out.
redis_expire(s) ==
    /\ lockKey[s]
    /\ lockKey' = [lockKey EXCEPT ![s] = FALSE]
    /\ lockOwner' = [lockOwner EXCEPT ![s] = NoRequest]
    /\ expiredOnce' = [expiredOnce EXCEPT ![s] = TRUE]
    /\ UNCHANGED <<reqSession, pc, lock_acquired, outcome, degraded,
                   deleteFailed>>

graph_ainvoke(r) ==
    /\ pc[r] = "graph"
    /\ \E res \in {"response", "timeout", "error"} :
          outcome' = [outcome EXCEPT ![r] = res]
    /\ pc' = [pc EXCEPT ![r] = "finally"]
    /\ UNCHANGED <<reqSession, lock_acquired, lockKey, lockOwner, degraded,
                   deleteFailed, expiredOnce>>

\* What a step of the memory, summarization, persistence, citation or
\* retriever code leaves alone: the requests, the graph, the loop, and the
\* named groups.
Frame(groups) ==
    /\ UNCHANGED <<lockVars, turnVars, reactVars>>
    /\ IF "mem" \in groups THEN UNCHANGED memVars ELSE TRUE
    /\ IF "load" \in groups THEN UNCHANGED loadVars ELSE TRUE
    /\ IF "sum" \in groups THEN UNCHANGED sumVars ELSE TRUE
    /\ IF "save" \in groups THEN UNCHANGED saveVars ELSE TRUE
    /\ IF "cite" \in groups THEN UNCHANGED citeVars ELSE TRUE
    /\ IF "retr" \in groups THEN UNCHANGED retrVars ELSE TRUE

\* The parts of the program a specification does not follow stay as they
\* are after construction: no request in flight, no run of the graph or of
\* the loop, an empty session, no call of the memory service, no
\* summarization task, no turn to persist, no reasoning chain, no retrieval.
Idle(groups) ==
    /\ IF "lock" \notin groups THEN TRUE
       ELSE /\ reqSession = [r \in Requests |-> 1]
            /\ pc = [r \in Requests |-> "done"]
            /\ lock_acquired = [r \in Requests |-> FALSE]
            /\ outcome = [r \in Requests |-> "none"]
            /\ lockKey = [s \in Sessions |-> FALSE]
            /\ lockOwner = [s \in Sessions |-> NoRequest]
            /\ degraded = [r \in Requests |-> FALSE]
            /\ deleteFailed = [r \in Requests |-> FALSE]
            /\ expiredOnce = [s \in Sessions |-> FALSE]
    /\ IF "turn" \notin groups THEN TRUE
       ELSE /\ user_type = "student"
            /\ agent_mode = "standard"
            /\ language = "en"
            /\ validation_mode = "fast"
            /\ node = "load_memory"
            /\ st = InitialState
            /\ steps = 0
            /\ hist = InitialHist
    /\ IF "react" \notin groups THEN TRUE
       ELSE /\ request_filters = {}
            /\ enforce_sequential = FALSE
            /\ rpc = "idle"
            /\ iteration = 0
            /\ tool_calls = <<>>
            /\ started = {}
            /\ finished = <<>>
            /\ scratchpad = <<>>
            /\ tool_messages = <<>>
            /\ loop_llm_calls = 0
            /\ synthesis_calls = 0
            /\ executions = <<>>
            /\ raised_calls = {}
            /\ retriever_calls = {}
            /\ run_result = [status |-> "none", answer |-> NoResponse,
                         iterations |-> 0]
    /\ IF "mem" \notin groups THEN TRUE
       ELSE /\ buffer = <<>>
            /\ messages = <<>>
            /\ summary_tasks = 0
            /\ last_buffer_op = NoOp
            /\ last_log_op = NoOp
            /\ appends = [tail |-> <<>>, exact |-> TRUE]
    /\ IF "load" \notin groups THEN TRUE
       ELSE /\ session_exists = FALSE
            /\ updated_at = Stamp(0, "none")
            /\ now = 0
            /\ idle_seconds = 0
            /\ memory_token_limit = 0
            /\ loaded = NoLoad
    /\ IF "sum" \notin groups THEN TRUE
       ELSE /\ is_summarizing = FALSE
            /\ summary = <<>>
            /\ tpc = [t \in SummaryTasks |-> "created"]
            /\ tsnap = [t \in SummaryTasks |-> 0]
            /\ tlog = [t \in SummaryTasks |->
                         [took |-> FALSE, released |-> FALSE,
                          refused |-> FALSE, llm |-> "none"]]
    /\ IF "save" \notin groups THEN TRUE
       ELSE /\ response = [k \in Turns |-> ""]
            /\ spc = [k \in Turns |-> "idle"]
            /\ seen = [k \in Turns |-> 0]
            /\ accepted = [k \in Turns |-> {}]
    /\ IF "cite" \notin groups THEN TRUE
       ELSE /\ documents_found = <<>>
            /\ reasoning_chain = <<>>
            /\ extracted = <<>>
            /\ min_score_used = 0
            /\ turn_citations = <<>>
            /\ tool_steps = 0
            /\ cpc = "idle"
    /\ IF "retr" \notin groups THEN TRUE
       ELSE /\ retrieve_filters = <<>>
            /\ result_cache = <<>>
            /\ last_retrieve = <<>>

\* Sessions are interchangeable: a request names a session an earlier
\* request named, or the next one not named yet.
InitLock ==
    /\ reqSession \in {f \in [Requests -> Sessions] :
                          \A r \in Requests : \A s \in 1..(f[r] - 1) :
                              \E q \in 1..(r - 1) : f[q] = s}
    /\ pc = [r \in Requests |-> "start"]
    /\ lock_acquired = [r \in Requests |-> FALSE]
    /\ outcome = [r \in Requests |-> "none"]
    /\ lockKey = [s \in Sessions |-> FALSE]
    /\ lockOwner = [s \in Sessions |-> NoRequest]
    /\ degraded = [r \in Requests |-> FALSE]
    /\ deleteFailed = [r \in Requests |-> FALSE]
    /\ expiredOnce = [s \in Sessions |-> FALSE]
    /\ Idle({"turn", "react", "mem", "load", "sum", "save", "cite",
            "retr"})

NextLock ==
    \/ \E r \in Requests : chat_endpoint_lock(r) /\ UNCHANGED <<turnVars, reactVars, memVars, svcVars>>
    \/ \E r \in Requests : graph_ainvoke(r) /\ UNCHANGED <<turnVars, reactVars, memVars, svcVars>>
    \/ \E r \in Requests : chat_endpoint_finally(r) /\ UNCHANGED <<turnVars, reactVars, memVars, svcVars>>
    \/ \E s \in Sessions : redis_expire(s) /\ UNCHANGED <<turnVars, reactVars, memVars, svcVars>>

SpecLock == InitLock /\ [][NextLock]_vars

(***************************************************************************)
(* The nodes of the graph (nodes/*.py) and the agents they run             *)
(***************************************************************************)
Max(a, b) == IF a >= b THEN a ELSE b

\* nodes/load_memory.py: ensure_session and get_context read the durable
\* store outside any try block, so a store failure raises out of the node.
load_memory ==
    /\ Running("load_memory")
    /\ \E storeUp \in BOOLEAN :
          IF storeUp
          THEN Goto("analyze_query") /\ UNCHANGED <<st, hist>>
          ELSE Raise("dependency")

\* graph.py _route_to_agent
route_to_agent(s) ==
    IF s.query_type = "conversational" THEN "conversational_agent"
    ELSE "prepare_educational_flow"

\* nodes/analyze_query.py: the classifier never raises (it falls back to
\* curriculum_specific); the node returns the whole state, so the reducers
\* of state.py are applied to the values it read.
analyze_query ==
    /\ Running("analyze_query")
    /\ \E qt \in {"conversational", "curriculum_specific"} :
          /\ st' = [st EXCEPT !.query_type = qt,
                              !.llm_calls = st.llm_calls + (st.llm_calls + 1),
                              !.citations = merge_citations(st.citations,
                                                            st.citations)]
          /\ Goto(route_to_agent(st'))
    /\ hist' = [hist EXCEPT !.llm_invocations = @ + 1]

\* agents/conversational_agent.py and nodes/conversational_agent_node.py:
\* a template answer, or one LLM call that is not guarded by a try block.
conversational_agent ==
    /\ Running("conversational_agent")
    /\ \E how \in {"template", "llm", "llm_empty", "llm_raises"} :
          IF how = "llm_raises"
          THEN Raise("dependency")
          ELSE \E lang \in Languages :
                 LET made == IF how = "template" THEN 0 ELSE 1
                     text == IF how = "template" THEN Text("conv", "en")
                             ELSE IF how = "llm" THEN Text("conv", lang)
                             ELSE NoResponse
                 IN /\ (how # "llm" => lang = "en")
                    /\ st' = [st EXCEPT
                                !.response = text,
                                !.llm_calls = st.llm_calls
                                              + Max(0, made - st.llm_calls)]
                    /\ hist' = [hist EXCEPT
                                  !.responders = @ \cup {"conversational"},
                                  !.llm_invocations = @ + made]
                    /\ Goto("translate_response")

\* graph.py line 135: a pass-through node.
prepare_educational_flow ==
    /\ Running("prepare_educational_flow")
    /\ Goto("retrieve_documents")
    /\ UNCHANGED <<st, hist>>

\* nodes/retrieve_documents.py lines 92-93 and 154-168.
MIN_SCORE == 40

high_score_docs(docs) ==
    FilterSeq(docs, [i \in 1..Len(docs) |-> docs[i].score >= MIN_SCORE])

\* nodes/retrieve_documents.py.  found is what the retriever returns (an
\* empty list on failure); speculative: the speculative results of
\* analyze_query are reused (lines 41-60); keyword: the raw query holds a
\* recency keyword (line 38); rag and web: how long the retriever and the
\* web search started beside it take ("slow": more than 10 s, "timeout":
\* more than the 15 s of the wait_for); reactive_timeout: the reactive web
\* search exceeds its 10 s.  One wait_for bounds the gather of retriever
\* and web search (line 77).
retrieve_documents ==
    /\ Running("retrieve_documents")
    /\ \E found \in {<<>>, <<Doc("d1", 90)>>,
                     <<Doc("d1", 90), Doc("d2", 30)>>, <<Doc("d2", 30)>>},
          speculative \in BOOLEAN, keyword \in BOOLEAN,
          rag \in {"fast", "slow", "timeout"}, web \in {"fast", "timeout"},
          reactive_timeout \in BOOLEAN :
          LET web_task == ~speculative /\ keyword
              timed_out == /\ ~speculative
                           /\ \/ rag = "timeout"
                              \/ web_task /\ web = "timeout"
              docs == IF timed_out THEN <<>> ELSE found
              \* lines 105-111 and 115-117
              rag_quality == IF docs = <<>> THEN "low"
                             ELSE IF docs[1].score > 65 THEN "high"
                             ELSE IF docs[1].score > 45 THEN "medium"
                             ELSE "low"
              parallel == web_task /\ ~timed_out
              \* line 135: current_elapsed > 10.0
              slow == ~speculative /\ (rag # "fast" \/ timed_out)
              attempted == ~parallel /\ rag_quality = "low" /\ ~slow
              reactive == attempted /\ ~reactive_timeout
              llm_calls_in_node == IF parallel \/ reactive THEN 1 ELSE 0
          IN /\ st' = [st EXCEPT
                         !.documents = high_score_docs(docs),
                         !.citations = merge_citations(st.citations,
                                                       high_score_docs(docs)),
                         !.llm_calls = st.llm_calls + llm_calls_in_node]
             /\ hist' = [hist EXCEPT
                   !.llm_invocations = @ + llm_calls_in_node,
                   !.retrieval =
                   [ran |-> TRUE, found |-> found, keyword |-> keyword,
                    speculative |-> speculative,
                    rag |-> IF speculative THEN "fast" ELSE rag,
                    rag_quality |-> rag_quality,
                    web_search |->
                       IF parallel THEN "parallel"
                       ELSE IF web_task THEN "parallel_timeout"
                       ELSE IF reactive THEN "reactive"
                       ELSE IF attempted THEN "reactive_timeout"
                       ELSE "none"]]
    /\ Goto("route_educational_user")

\* A router that looks at the mode before the role.
route_educational_user_by_mode ==
    /\ Running("route_educational_user")
    /\ Goto(IF agent_mode = "interactive" THEN "interactive_student_agent"
            ELSE IF user_type = "teacher" THEN "teacher_agent"
            ELSE "student_agent")
    /\ hist' = [hist EXCEPT !.retrieval = InitialHist.retrieval]
    /\ UNCHANGED st

\* graph.py line 141: a pass-through node followed by the conditional edge
\* _route_educational_user.
route_educational_user ==
    /\ Running("route_educational_user")
    /\ Goto(IF user_type = "teacher" THEN "teacher_agent"
            ELSE IF agent_mode = "interactive"
            THEN "interactive_student_agent"
            ELSE "student_agent")
    /\ hist' = [hist EXCEPT !.retrieval = InitialHist.retrieval]
    /\ UNCHANGED st

\* What one ReActAgent.run can give to the agent that called it.
ReactRun(result, iterations, lang, cites) ==
    [result |-> result, iterations |-> iterations, lang |-> lang,
     cites |-> cites]

ReactRuns ==
    LET \* what CitationService.extract_citations can hand to an agent
        citation_lists == {<<>>, <<Doc("doc_7", 90)>>}
    IN {ReactRun(res, it, lang, cites) :
           res \in {"answer"}, it \in 1..max_iterations, lang \in Languages,
           cites \in citation_lists}
       \cup {ReactRun("empty", it, "en", <<>>) : it \in 1..max_iterations}
       \cup {ReactRun("fallback", max_iterations, "en", cites) :
               cites \in citation_lists}
       \cup {ReactRun("raise", 0, "en", <<>>)}

AnswerOf(run) ==
    IF run.result = "fallback" THEN FALLBACK_MESSAGE
    ELSE IF run.result = "empty" THEN NoResponse
    ELSE Text("answer", run.lang)

\* The correction flag the agents set in their own copy of the state.
set_correction(s) ==
    IF s.validation_results = "invalid" THEN TRUE ELSE s.is_correction

\* agents/student_agent.py StudentAgent.__call__
StudentAgent(s, lang, run) ==
    IF run.result = "raise"
    THEN [s EXCEPT !.is_correction = set_correction(s),
                   !.response = FALLBACK_MESSAGE,
                   !.llm_calls = 0,
                   !.citations = <<>>]
    ELSE [s EXCEPT !.is_correction = set_correction(s),
                   !.response = AnswerOf(run),
                   !.citations = IF run.cites # <<>> THEN run.cites
                                 ELSE s.citations,
                   !.llm_calls = s.llm_calls + run.iterations,
                   !.final_language =
                        IF lang # "en" /\ run.result # "fallback"
                        THEN lang ELSE s.final_language]

\* agents/interactive_student_agent.py InteractiveStudentAgent.__call__
InteractiveStudentAgent(s, lang, run) ==
    IF run.result = "raise"
    THEN [s EXCEPT !.is_correction = set_correction(s),
                   !.response = FALLBACK_MESSAGE,
                   !.llm_calls = 0,
                   !.citations = <<>>]
    ELSE [s EXCEPT !.is_correction = set_correction(s),
                   !.response = AnswerOf(run),
                   !.citations = IF run.cites # <<>> THEN run.cites
                                 ELSE s.citations,
                   !.llm_calls = run.iterations,
                   !.final_language =
                        IF lang # "en" /\ run.result # "fallback"
                        THEN lang ELSE s.final_language]

\* agents/teacher_agent.py TeacherAgent.__call__: its target language is
\* state["detected_language"], which main.py sets to "" and nothing changes.
TeacherAgent(s, lang, run) ==
    IF run.result = "raise"
    THEN [s EXCEPT !.is_correction = set_correction(s),
                   !.response = FALLBACK_MESSAGE,
                   !.llm_calls = 0,
                   !.citations = <<>>]
    ELSE [s EXCEPT !.is_correction = set_correction(s),
                   !.response = AnswerOf(run),
                   !.citations = run.cites,
                   !.llm_calls = s.llm_calls + run.iterations,
                   !.final_language =
                        IF run.result # "fallback"
                        THEN "empty" ELSE s.final_language]

\* The update an agent node returns, merged into the state by the reducers
\* of AgentState: response, final_language and is_correction are replaced,
\* citations go through merge_citations, llm_calls is added.
MergeAgentUpdate(s, ns, with_correction) ==
    [s EXCEPT !.response = ns.response,
              !.citations = merge_citations(s.citations, ns.citations),
              !.llm_calls = s.llm_calls + Max(0, ns.llm_calls - s.llm_calls),
              !.final_language = ns.final_language,
              !.is_correction = IF with_correction THEN ns.is_correction
                                ELSE s.is_correction]

\* History of a run; made is the number of LLM invocations of a run that
\* returned (those of a run that raised or was cancelled are not followed).
\* An answer that reports max_iterations can be the answer of the synthesis
\* call made after the loop (react_agent.py lines 243-256).
RecordRun(agent, ns, raised, timed_out, made) ==
    [hist EXCEPT
        !.agent_runs = hist.agent_runs + 1,
        !.llm_invocations = hist.llm_invocations + made,
        !.responders = hist.responders \cup {agent},
        !.first_agent = IF hist.agent_runs = 0 THEN agent
                        ELSE hist.first_agent,
        !.last_run = [agent |-> agent, raised |-> raised,
                      timed_out |-> timed_out,
                      correction |-> set_correction(st),
                      llm_calls |-> Max(0, ns.llm_calls - st.llm_calls)]]

\* nodes/student_agent_node.py: the agent under wait_for(25 s).
student_agent ==
    /\ Running("student_agent")
    /\ \/ \E run \in ReactRuns, synthesis \in BOOLEAN :
            LET ns == StudentAgent(st, language, run) IN
            /\ synthesis => /\ run.result \in {"answer", "empty"}
                            /\ run.iterations = max_iterations
            /\ st' = MergeAgentUpdate(st, ns, TRUE)
            /\ hist' = RecordRun("student", ns, run.result = "raise", FALSE,
                                 run.iterations + IF synthesis THEN 1 ELSE 0)
       \/ LET ns == [st EXCEPT !.response = Text("timeout_msg", "en"),
                               !.is_correction = FALSE] IN
            /\ st' = MergeAgentUpdate(st, ns, TRUE)
            /\ hist' = RecordRun("student", ns, FALSE, TRUE, 0)
    /\ Goto("translate_response_educational")

\* nodes/interactive_student_agent_node.py
interactive_student_agent ==
    /\ Running("interactive_student_agent")
    /\ \E run \in ReactRuns, synthesis \in BOOLEAN :
          LET ns == InteractiveStudentAgent(st, language, run) IN
          /\ synthesis => /\ run.result \in {"answer", "empty"}
                          /\ run.iterations = max_iterations
          /\ st' = MergeAgentUpdate(st, ns, TRUE)
          /\ hist' = RecordRun("interactive", ns, run.result = "raise", FALSE,
                               run.iterations + IF synthesis THEN 1 ELSE 0)
    /\ Goto("translate_response_educational")

\* nodes/teacher_agent_node.py: is_correction is not among the returned keys.
teacher_agent ==
    /\ Running("teacher_agent")
    /\ \E run \in ReactRuns, synthesis \in BOOLEAN :
          LET ns == TeacherAgent(st, language, run) IN
          /\ synthesis => /\ run.result \in {"answer", "empty"}
                          /\ run.iterations = max_iterations
          /\ st' = MergeAgentUpdate(st, ns, FALSE)
          /\ hist' = RecordRun("teacher", ns, run.result = "raise", FALSE,
                               run.iterations + IF synthesis THEN 1 ELSE 0)
    /\ Goto("translate_response_educational")

\* nodes/translate_response.py lines 35-55: the translator is called.
Translates(s, lang) ==
    s.response.kind # "empty" /\ s.final_language # lang /\ lang # "en"

\* nodes/translate_response.py TranslateResponseNode.__call__; the
\* translator returns the text unchanged when its LLM call fails.
TranslateUpdate(s, lang, translated) ==
    IF ~Translates(s, lang)
    THEN IF s.response.kind # "empty" /\ s.final_language # lang
         THEN [s EXCEPT !.final_language = "en"]
         ELSE s
    ELSE [s EXCEPT !.response = IF translated
                                 THEN Text(s.response.kind, lang)
                                 ELSE s.response,
                   !.final_language = lang,
                   !.llm_calls = s.llm_calls + 1]

translate_response_educational ==
    /\ Running("translate_response_educational")
    /\ \E translated \in BOOLEAN :
          st' = TranslateUpdate(st, language, translated)
    /\ Goto("groundedness_check")
    /\ hist' = [hist EXCEPT !.llm_invocations =
                   @ + IF Translates(st, language) THEN 1 ELSE 0]

translate_response ==
    /\ Running("translate_response")
    /\ \E translated \in BOOLEAN :
          st' = TranslateUpdate(st, language, translated)
    /\ Goto("save_memory")
    /\ hist' = [hist EXCEPT !.llm_invocations =
                   @ + IF Translates(st, language) THEN 1 ELSE 0]

\* graph.py _route_after_validation
route_after_validation(s) ==
    IF s.validation_results = "none" THEN "pass"
    ELSE IF s.validation_results = "valid" THEN "pass"
    ELSE IF s.is_correction THEN "pass"
    ELSE "fail"

\* nodes/groundedness_check.py followed by the conditional edge of graph.py
\* lines 166-173.  The validator is called through the interface the node
\* uses (response, target_lang); its verdict is the is_valid of the
\* ValidationResult an LLM call produces, and a validator timeout counts as
\* valid.
groundedness_check ==
    /\ Running("groundedness_check")
    /\ IF \* lines 23-54: the cases without validation
          \/ validation_mode = "disabled"
          \/ (validation_mode = "fast" /\ st.query_type = "conversational")
          \/ st.response.kind = "empty"
          \/ st.is_correction
          \/ language = "en"
       THEN /\ st' = st
            /\ hist' = IF route_after_validation(st) = "fail"
                       THEN [hist EXCEPT !.fail_edges = hist.fail_edges + 1,
                                         !.retry_cause = "stale"]
                       ELSE hist
       ELSE \E verdict \in {"valid", "invalid", "timeout"} :
               /\ st' = [st EXCEPT
                            !.validation_results =
                                IF verdict = "invalid" THEN "invalid"
                                ELSE "valid",
                            !.llm_calls = st.llm_calls + 1]
               /\ hist' = [hist EXCEPT
                            !.validations = hist.validations + 1,
                            !.llm_invocations = hist.llm_invocations + 1,
                            !.fail_edges =
                                IF route_after_validation(st') = "fail"
                                THEN hist.fail_edges + 1
                                ELSE hist.fail_edges,
                            !.retry_cause =
                                IF route_after_validation(st') = "fail"
                                THEN "invalid" ELSE hist.retry_cause]
    /\ Goto(IF route_after_validation(st') = "fail"
            THEN "route_educational_user" ELSE "save_memory")

\* A node that saves the English text the agent produced.
save_memory_english ==
    /\ Running("save_memory")
    /\ hist' = [hist EXCEPT
                   !.persisted = TRUE,
                   !.written =
                       IF st.response.kind = "empty" THEN <<>>
                       ELSE <<Msg("user", Text("query", language)),
                              Msg("assistant",
                                  Text(st.response.kind, "en"))>>]
    /\ Goto("END")
    /\ UNCHANGED st

\* nodes/save_memory.py: nothing is written for an empty response; else
\* state["query"], the query of the request in the language it was asked
\* in, and state["response"] are handed to add_message and to the task.
save_memory ==
    /\ Running("save_memory")
    /\ hist' = [hist EXCEPT
                   !.persisted = TRUE,
                   !.written =
                       IF st.response.kind = "empty" THEN <<>>
                       ELSE <<Msg("user", Text("query", language)),
                              Msg("assistant", st.response)>>]
    /\ Goto("END")
    /\ UNCHANGED st

\* main.py lines 365-429: the graph reached END; build the ChatResponse.
chat_endpoint_respond ==
    /\ pc[TurnReq] = "graph"
    /\ node = "END"
    /\ outcome' = [outcome EXCEPT ![TurnReq] = "response"]
    /\ pc' = [pc EXCEPT ![TurnReq] = "finally"]
    \* line 377: message = final_state.get("response", "")
    /\ hist' = [hist EXCEPT !.message = st.response]
    /\ UNCHANGED <<reqSession, lock_acquired, lockKey, lockOwner, degraded,
                   deleteFailed, expiredOnce>>
    /\ UNCHANGED <<user_type, agent_mode, language, validation_mode, node, st,
                   steps>>

\* main.py lines 353-363: wait_for(graph.ainvoke(state), 60 s) expired.
chat_endpoint_timeout ==
    /\ pc[TurnReq] = "graph"
    /\ node \notin {"END", "raised"}
    /\ hist' = [hist EXCEPT !.cause = "timeout"]
    /\ outcome' = [outcome EXCEPT ![TurnReq] = "timeout"]
    /\ pc' = [pc EXCEPT ![TurnReq] = "finally"]
    /\ UNCHANGED <<reqSession, lock_acquired, lockKey, lockOwner, degraded,
                   deleteFailed, expiredOnce>>
    /\ UNCHANGED <<user_type, agent_mode, language, validation_mode, node, st,
                   steps>>

\* langgraph: the super-step budget is used up before END is reached.
graph_recursion_error ==
    /\ pc[TurnReq] = "graph"
    /\ node \notin {"END", "raised"}
    /\ steps >= RecursionLimit
    /\ Raise("recursion")

\* One request (TurnReq) against a session whose lock may be held by the
\* in-flight turn of another request.
InitTurn ==
    /\ reqSession = [r \in Requests |-> 1]
    /\ \E held \in BOOLEAN :
          /\ pc = [r \in Requests |->
                      IF r = TurnReq THEN "start"
                      ELSE IF held /\ r = 2 THEN "graph" ELSE "done"]
          /\ lock_acquired = [r \in Requests |-> held /\ r = 2]
          /\ lockKey = [s \in Sessions |-> held /\ s = 1]
          /\ lockOwner = [s \in Sessions |->
                            IF held /\ s = 1 THEN 2 ELSE NoRequest]
    /\ outcome = [r \in Requests |-> "none"]
    /\ degraded = [r \in Requests |-> FALSE]
    /\ deleteFailed = [r \in Requests |-> FALSE]
    /\ expiredOnce = [s \in Sessions |-> FALSE]
    /\ user_type \in {"student", "teacher"}
    /\ agent_mode \in {"standard", "interactive"}
    /\ language \in Languages
    /\ validation_mode \in {"strict", "fast", "disabled"}
    /\ node = "load_memory"
    /\ st = InitialState
    /\ steps = 0
    /\ hist = InitialHist
    /\ Idle({"react", "mem", "load", "sum", "save", "cite",
            "retr"})

NextTurn ==
    \/ chat_endpoint_lock(TurnReq) /\ UNCHANGED <<turnVars, reactVars, memVars, svcVars>>
    \/ load_memory /\ UNCHANGED <<reactVars, memVars, svcVars>>
    \/ analyze_query /\ UNCHANGED <<reactVars, memVars, svcVars>>
    \/ conversational_agent /\ UNCHANGED <<reactVars, memVars, svcVars>>
    \/ prepare_educational_flow /\ UNCHANGED <<reactVars, memVars, svcVars>>
    \/ retrieve_documents /\ UNCHANGED <<reactVars, memVars, svcVars>>
    \/ route_educational_user /\ UNCHANGED <<reactVars, memVars, svcVars>>
    \/ student_agent /\ UNCHANGED <<reactVars, memVars, svcVars>>
    \/ interactive_student_agent /\ UNCHANGED <<reactVars, memVars, svcVars>>
    \/ teacher_agent /\ UNCHANGED <<reactVars, memVars, svcVars>>
    \/ translate_response_educational /\ UNCHANGED <<reactVars, memVars, svcVars>>
    \/ groundedness_check /\ UNCHANGED <<reactVars, memVars, svcVars>>
    \/ translate_response /\ UNCHANGED <<reactVars, memVars, svcVars>>
    \/ save_memory /\ UNCHANGED <<reactVars, memVars, svcVars>>
    \/ chat_endpoint_respond /\ UNCHANGED <<reactVars, memVars, svcVars>>
    \/ chat_endpoint_timeout /\ UNCHANGED <<reactVars, memVars, svcVars>>
    \/ graph_recursion_error /\ UNCHANGED <<reactVars, memVars, svcVars>>
    \/ chat_endpoint_finally(TurnReq) /\ UNCHANGED <<turnVars, reactVars, memVars, svcVars>>

SpecTurn == InitTurn /\ [][NextTurn]_vars

(***************************************************************************)
(* agents/react_agent.py: the tool-calling loop ReActAgent.run             *)
(***************************************************************************)
\* An optional value: <<>> is None or an absent key, <<v>> is the value v.
None == <<>>
Some(v) == <<v>>

\* The tools the agents register (student_agent.py 149-153) and a generic
\* tool as in scripts/verify_agents.py.
RegisteredTools == {"retrieve_documents", "web_search", "search_docs"}

\* tool_call["args"] as the model wrote it: the query ("" when it left the
\* query empty), an optional "filters" key, and schema arguments such as
\* subject or class_name.
Args(query, filters, kwargs) ==
    [query |-> query, filters |-> filters, kwargs |-> kwargs]

Call(name, args) == [name |-> name, args |-> args]

\* An observation: the kind of text, and the message of an error text.
Obs(kind, message) == [kind |-> kind, message |-> message]

\* The outcome of awaiting one tool coroutine.
Outcome(raised, fault, observation, retriever, executed) ==
    [raised |-> raised, fault |-> fault, observation |-> observation,
     retriever |-> retriever, executed |-> executed]

\* tool.execute(**t_args) for the registered tools.  RetrievalTool.execute
\* and WebSearchTool.execute need a query (TypeError without one) and catch
\* what goes wrong inside; the generic tool may raise.
tool_execute(tool_name, t_args, behaviour) ==
    IF tool_name = "retrieve_documents"
    THEN IF t_args.query = None
         THEN Outcome(TRUE, Some("TypeError"), Obs("", ""), None, TRUE)
         ELSE Outcome(FALSE, None,
                      IF behaviour = "ok" THEN Obs("documents", "")
                      ELSE IF behaviour = "nothing"
                      THEN Obs("No documents found for query", "")
                      ELSE Obs("Error during retrieval: ", "retriever"),
                      Some(t_args.filters), TRUE)
    ELSE IF tool_name = "web_search"
    THEN IF t_args.query = None
         THEN Outcome(TRUE, Some("TypeError"), Obs("", ""), None, TRUE)
         ELSE Outcome(FALSE, None,
                      IF behaviour = "ok"
                      THEN Obs("WEB_SEARCH_OBSERVATION", "")
                      ELSE Obs("Web search failed: ", "openai"),
                      None, TRUE)
    ELSE IF behaviour = "raises"
    THEN Outcome(TRUE, Some("execute"), Obs("", ""), None, TRUE)
    ELSE Outcome(FALSE, None,
                 IF behaviour = "ok" THEN Obs("text", "")
                 ELSE IF behaviour = "marker" THEN Obs("NO_DOCS_FOUND", "")
                 ELSE Obs("", ""),
                 None, TRUE)

\* _execute_tool without its try block: what the tool raises leaves it.
execute_tool_unguarded(t_name, t_args, behaviour) ==
    IF t_name \notin RegisteredTools
    THEN Outcome(TRUE, Some("Tool not found"), Obs("", ""), None, TRUE)
    ELSE tool_execute(t_name, t_args, behaviour)

\* lines 199-206 _execute_tool: ToolRegistry.get (ValueError for a name
\* that is not registered) and tool.execute inside one try block.
execute_tool(t_name, t_args, behaviour) ==
    LET attempt == IF t_name \notin RegisteredTools
                   THEN Outcome(TRUE, Some("Tool not found"), Obs("", ""),
                                None, TRUE)
                   ELSE tool_execute(t_name, t_args, behaviour)
    IN IF attempt.raised
       THEN [attempt EXCEPT !.raised = FALSE,
                            !.observation = Obs("Error: ", attempt.fault[1])]
       ELSE attempt

\* lines 167-209: the coroutine built for one tool call, awaited; lines
\* 176-185: with enforce_sequential a web search requested beside a
\* retrieval is not executed.
tool_coroutine(tc, batch, behaviour) ==
    IF /\ enforce_sequential
       /\ tc.name = "web_search"
       /\ \E i \in 1..Len(batch) : batch[i].name = "retrieve_documents"
    THEN Outcome(FALSE, None,
                 Obs("ERROR: Web search cannot be used in parallel", ""),
                 None, FALSE)
    ELSE LET \* line 173: keys whose value is None or "" are removed.
             clean_tool_args ==
                [query |-> IF tc.args.query = "" THEN None
                           ELSE Some(tc.args.query),
                 filters |-> tc.args.filters,
                 kwargs |-> tc.args.kwargs]
             \* lines 188-194: the request filters, without the OpenAPI
             \* placeholder key, replace the "filters" argument when they
             \* are not empty.
             clean_filters == request_filters \ {"additionalProp1"}
             tool_args ==
                IF tc.name = "retrieve_documents" /\ request_filters # {}
                   /\ clean_filters # {}
                THEN [clean_tool_args EXCEPT !.filters = Some(clean_filters)]
                ELSE clean_tool_args
         IN execute_tool(tc.name, tool_args, behaviour)

\* A loop that runs one iteration more than max_iterations.
loop_continues_once_more(i) == i <= max_iterations

\* line 137: for iteration in range(1, self.max_iterations + 1)
loop_continues(i) == i < max_iterations

\* Any observation that is not empty counts.
any_observation(chain) ==
    \E i \in 1..Len(chain) : chain[i].observation.kind # ""

\* line 242: an observation that is not empty and does not hold the marker.
has_observations(chain) ==
    \E i \in 1..Len(chain) :
        /\ chain[i].observation.kind # ""
        /\ chain[i].observation.kind # "NO_DOCS_FOUND"

Returned(answer, iterations) ==
    [status |-> "returned", answer |-> answer, iterations |-> iterations]

\* An exception left run: of the model ("llm") or of a tool ("tool").
Raised(cause) == [status |-> cause, answer |-> NoResponse, iterations |-> 0]

\* lines 141-214: one call of llm_with_tools.ainvoke and what follows from
\* the response up to the next await: the exception leaves run, or the
\* final answer is returned, or a coroutine is built for every tool call
\* of the response and asyncio.gather starts them all.
react_llm_call ==
    /\ rpc = "llm"
    /\ loop_llm_calls' = loop_llm_calls + 1
    /\ \/ /\ rpc' = "raised"
          /\ run_result' = Raised("llm")
          /\ UNCHANGED <<tool_calls, started, finished>>
       \/ /\ \E content \in {Text("answer", "en"), NoResponse} :
                run_result' = Returned(content, iteration)
          /\ rpc' = "returned"
          /\ UNCHANGED <<tool_calls, started, finished>>
       \/ /\ \E batch \in
                { <<Call("retrieve_documents", Args("q", None, {}))>>,
                  <<Call("retrieve_documents", Args("q", Some({"subject_id"}), {}))>>,
                  <<Call("retrieve_documents", Args("q", None, {"subject"}))>>,
                  <<Call("retrieve_documents", Args("", None, {}))>>,
                  <<Call("retrieve_documents", Args("q", None, {})),
                    Call("web_search", Args("q", None, {}))>>,
                  <<Call("calculator", Args("q", None, {})),
                    Call("retrieve_documents", Args("q", None, {}))>>,
                  <<Call("search_docs", Args("q", None, {}))>>,
                  <<Call("web_search", Args("q", None, {}))>> } :
                /\ tool_calls' = [i \in 1..Len(batch) |->
                                    [name |-> batch[i].name,
                                     args |-> batch[i].args,
                                     id |-> <<iteration, i>>]]
                /\ started' = 1..Len(batch)
          /\ finished' = <<>>
          /\ rpc' = "tools"
          /\ UNCHANGED run_result
    /\ UNCHANGED <<request_filters, enforce_sequential, iteration, scratchpad,
                   tool_messages, synthesis_calls, executions, raised_calls,
                   retriever_calls>>
    /\ UNCHANGED <<lockVars, turnVars, memVars, svcVars>>

\* lines 197-209: one of the started coroutines ends, in any order.
react_tool_finishes ==
    /\ rpc = "tools"
    /\ \E i \in started :
          /\ \A j \in 1..Len(finished) : finished[j].call # i
          /\ \E behaviour \in
                   \* what a tool can do when it runs
                   CASE tool_calls[i].name = "retrieve_documents" ->
                          {"ok", "nothing", "fails"}
                     [] tool_calls[i].name = "web_search" -> {"ok", "fails"}
                     [] tool_calls[i].name = "search_docs" ->
                          {"ok", "nothing", "marker", "raises"}
                     [] OTHER -> {"ok"} :
                finished' = Append(finished,
                    [call |-> i,
                     outcome |-> tool_coroutine(tool_calls[i], tool_calls,
                                                behaviour)])
    /\ UNCHANGED <<request_filters, enforce_sequential, rpc, iteration,
                   tool_calls, started, scratchpad, tool_messages,
                   loop_llm_calls, synthesis_calls, executions, raised_calls,
                   retriever_calls, run_result>>
    /\ UNCHANGED <<lockVars, turnVars, memVars, svcVars>>

\* The i-th result is that of the coroutine that ended i-th.
as_completed(done, i) == done[i].outcome

\* line 212 asyncio.gather: the i-th result is that of the i-th coroutine.
gather(done, i) ==
    done[CHOOSE j \in 1..Len(done) : done[j].call = i].outcome

\* lines 211-235: asyncio.gather returns when all coroutines have ended;
\* the observations are appended in the order of the calls.
react_execute_tools ==
    /\ rpc = "tools"
    /\ Len(finished) = Len(tool_calls)
    /\ LET results == [i \in 1..Len(tool_calls) |-> gather(finished, i)]
                 ran == {i \in 1..Len(tool_calls) : results[i].executed}
             IN /\ executions' = executions \o
                      FilterSeq([i \in 1..Len(tool_calls) |-> tool_calls[i].id],
                                [i \in 1..Len(tool_calls) |-> i \in ran])
                /\ raised_calls' = raised_calls \cup
                      {[id |-> tool_calls[i].id, message |-> results[i].fault[1]] :
                          i \in {j \in ran : results[j].fault # None}}
                /\ retriever_calls' = retriever_calls \cup
                      {[id |-> tool_calls[i].id,
                        filters |-> results[i].retriever[1]] :
                          i \in {j \in ran : results[j].retriever # None}}
                /\ IF \E i \in 1..Len(tool_calls) : results[i].raised
                   THEN \* asyncio.gather hands the exception on
                        /\ rpc' = "raised"
                        /\ run_result' = Raised("tool")
                        /\ UNCHANGED <<scratchpad, tool_messages, iteration>>
                   ELSE /\ scratchpad' = scratchpad \o
                              [i \in 1..Len(tool_calls) |->
                                 [iteration |-> iteration,
                                  action |-> tool_calls[i].name,
                                  observation |-> results[i].observation]]
                        /\ tool_messages' = tool_messages \o
                              [i \in 1..Len(tool_calls) |->
                                 [tool_call_id |-> tool_calls[i].id,
                                  name |-> tool_calls[i].name,
                                  content |-> results[i].observation]]
                        /\ IF loop_continues(iteration)
                           THEN iteration' = iteration + 1 /\ rpc' = "llm"
                           ELSE iteration' = iteration /\ rpc' = "after_loop"
                        /\ UNCHANGED run_result
    /\ tool_calls' = <<>>
    /\ started' = {}
    /\ UNCHANGED <<request_filters, enforce_sequential, loop_llm_calls,
                   synthesis_calls, finished>>
    /\ UNCHANGED <<lockVars, turnVars, memVars, svcVars>>

\* lines 237-262: after the last iteration one synthesis call if something
\* was observed, else the fallback message.
react_after_loop ==
    /\ rpc = "after_loop"
    /\ IF has_observations(scratchpad)
       THEN /\ synthesis_calls' = synthesis_calls + 1
            /\ \/ /\ rpc' = "raised"
                  /\ run_result' = Raised("llm")
               \/ /\ \E content \in {Text("synthesis", "en"), NoResponse} :
                        run_result' = Returned(content, max_iterations)
                  /\ rpc' = "returned"
       ELSE /\ run_result' = Returned(FALLBACK_MESSAGE, max_iterations)
            /\ rpc' = "returned"
            /\ UNCHANGED synthesis_calls
    /\ UNCHANGED <<request_filters, enforce_sequential, iteration, tool_calls,
                   started, finished, scratchpad, tool_messages,
                   loop_llm_calls, executions, raised_calls, retriever_calls>>
    /\ UNCHANGED <<lockVars, turnVars, memVars, svcVars>>

\* lines 101-135: run starts; the prefilled observations are recorded in
\* the scratchpad with iteration 0.
InitReact ==
    /\ Idle({"lock", "turn", "mem", "load", "sum", "save", "cite",
            "retr"})
    /\ request_filters \in {{}, {"additionalProp1"}, {"class_id"},
                            {"class_id", "additionalProp1"}}
    /\ enforce_sequential \in BOOLEAN
    /\ rpc = "llm"
    /\ iteration = 1
    /\ tool_calls = <<>>
    /\ started = {}
    /\ finished = <<>>
    /\ \E prefilled \in { <<>>,
        <<[tool |-> "retrieve_documents", observation |-> Obs("documents", "")]>> } :
          scratchpad = [i \in 1..Len(prefilled) |->
                          [iteration |-> 0,
                           action |-> prefilled[i].tool,
                           observation |-> prefilled[i].observation]]
    /\ tool_messages = <<>>
    /\ loop_llm_calls = 0
    /\ synthesis_calls = 0
    /\ executions = <<>>
    /\ raised_calls = {}
    /\ retriever_calls = {}
    /\ run_result = [status |-> "none", answer |-> NoResponse,
                         iterations |-> 0]

NextReact ==
    \/ react_llm_call
    \/ react_tool_finishes
    \/ react_execute_tools
    \/ react_after_loop

SpecReact == InitReact /\ [][NextReact]_vars

\* The event loop runs the coroutine on: every awaited call of the model or
\* of a tool returns or raises.
SpecReactLive == InitReact /\ [][NextReact]_vars /\ WF_vars(NextReact)

(***************************************************************************)
(* services/chat_memory.py: the fast buffer and the durable message log    *)
(***************************************************************************)
\* settings.memory_buffer_size + 10 (chat_memory.py line 169), scaled down.
redis_buffer_limit == 2

MessageSet ==
    {Msg("user", "hello"), Msg("assistant", "hello"), Msg("user", "bye")}

\* A trim that keeps the first n elements.
ltrim_head(list, n) ==
    IF Len(list) <= n THEN list ELSE SubSeq(list, 1, n)

\* Redis LTRIM key -n -1: the last n elements stay.
ltrim(list, n) ==
    IF Len(list) <= n THEN list
    ELSE SubSeq(list, Len(list) - n + 1, Len(list))

\* A comparison of the text alone.
same_content(last_msg, role, content) == last_msg.content = content

\* lines 162 and 190: the last stored message has this role and this text.
same_message(last_msg, role, content) ==
    last_msg.role = role /\ last_msg.content = content

ends_with(list, msg) ==
    list # <<>> /\ list[Len(list)] = msg

is_duplicate(list, msg) ==
    list # <<>> /\ same_message(list[Len(list)], msg.role, msg.content)

Repeats(last, kind, msg) ==
    /\ last.kind = kind
    /\ last.msg = msg
    /\ last.fresh

\* MemoryService.add_message: LINDEX -1, then RPUSH + LTRIM + EXPIRE in one
\* pipeline; whatever Redis raises is logged and swallowed.  The entries are
\* JSON objects of two strings, which json.loads gives back as written.
add_message_call(msg) ==
    /\ \E redis \in {"ok", "lindex_raises", "execute_raises"} :
          /\ buffer' =
                IF redis # "ok" THEN buffer
                ELSE IF is_duplicate(buffer, msg) THEN buffer
                ELSE ltrim(buffer \o <<msg>>, redis_buffer_limit)
          /\ last_buffer_op' =
                Op("add_message", msg, redis = "ok", ~ends_with(buffer, msg),
                   redis = "ok" /\ ~is_duplicate(buffer, msg),
                   Repeats(last_buffer_op, "add_message", msg)
                      /\ last_buffer_op.ok)
    /\ UNCHANGED <<messages, summary_tasks, last_log_op>>

\* add_message, nothing else running.
add_message(msg) ==
    /\ add_message_call(msg)
    /\ UNCHANGED appends
    /\ UNCHANGED <<lockVars, turnVars, reactVars, svcVars>>

\* Redis drops the buffer key when its EXPIRE 3600 has run out.
redis_buffer_expire ==
    /\ buffer # <<>>
    /\ buffer' = <<>>
    /\ last_buffer_op' = Op("expire", Msg("none", ""), TRUE, FALSE, FALSE, FALSE)
    /\ appends' = [appends EXCEPT !.exact = TRUE]
    /\ UNCHANGED <<messages, summary_tasks, last_log_op>>
    /\ UNCHANGED <<lockVars, turnVars, reactVars, svcVars>>

\* An update that writes the message over the list.
mongo_set(log, msg) == <<msg>>

\* models/chat.py lines 42-44: {"$push": {"messages": message}}.
mongo_push(log, msg) == Append(log, msg)

\* MemoryService.background_save_message: find_one, the duplicate check on
\* session.messages[-1], the atomic $push of ChatSession.add_message and the
\* summary task every SummaryEvery messages; every exception is swallowed.
\* The $push can be applied although the call raises.  session_messages is
\* the list find_one read: the duplicate check and the length of line 197
\* are those of this local list, to which add_message appends the message.
background_save_message_call(msg, session_messages) ==
    /\ Len(messages) < MaxMessages
    /\ \E mongo \in {"ok", "find_raises", "push_raises", "push_applied_raises"} :
          LET duplicate == is_duplicate(session_messages, msg)
              pushed == ~duplicate /\ mongo \in {"ok", "push_applied_raises"}
          IN /\ messages' =
                   IF mongo = "find_raises" THEN messages
                   ELSE IF pushed THEN mongo_push(messages, msg)
                   ELSE messages
             /\ summary_tasks' =
                   IF mongo = "ok" /\ ~duplicate
                      /\ (Len(session_messages) + 1) % SummaryEvery = 0
                   THEN summary_tasks + 1
                   ELSE summary_tasks
             /\ last_log_op' =
                   Op("background_save_message", msg,
                      mongo = "ok" \/ (duplicate /\ mongo # "find_raises"),
                      ~ends_with(messages, msg),
                      mongo # "find_raises" /\ pushed,
                      Repeats(last_log_op, "background_save_message", msg)
                         /\ last_log_op.ok)
    /\ UNCHANGED <<buffer, last_buffer_op, appends>>

\* background_save_message, run as one step.
background_save_message(msg) ==
    /\ background_save_message_call(msg, messages)
    /\ UNCHANGED <<lockVars, turnVars, reactVars, svcVars>>

InitMem ==
    /\ Idle({"lock", "turn", "react", "mem", "load", "sum", "save", "cite",
            "retr"})

NextMem ==
    \/ \E msg \in MessageSet : add_message(msg)
    \/ \E msg \in MessageSet : background_save_message(msg)
    \/ redis_buffer_expire

SpecMem == InitMem /\ [][NextMem]_vars

(***************************************************************************)
(* services/chat_memory.py: loading a session (ensure_session,             *)
(* get_context, load_session_full)                                         *)
(***************************************************************************)
\* Longest buffer and largest token ceiling the model draws.
MaxBuffered == 3
MaxTokenLimit == 8

\* settings.memory_buffer_size (config.py), scaled down.
memory_buffer_size == 2

\* chat_memory.py line 28.
SESSION_RESTART_THRESHOLD == 7200

BoundedSeq(S, n) == UNION {[1..k -> S] : k \in 0..n}

\* models/chat.py line 8: IST is UTC+5:30; a naive value is taken as UTC.
utcoffset(tz) == IF tz = "ist" THEN 19800 ELSE 0

\* lines 64-66: updated_at.astimezone(timezone.utc).replace(tzinfo=None),
\* applied to aware values only.
to_naive_utc(dt) ==
    IF dt.tz # "naive" THEN dt.wall - utcoffset(dt.tz) ELSE dt.wall

\* The comparison with the threshold included.
restart_at_threshold(found, dt, n_messages, utcnow) ==
    /\ found
    /\ dt.tz # "none"
    /\ utcnow - to_naive_utc(dt) >= SESSION_RESTART_THRESHOLD
    /\ n_messages > 0

\* lines 53-71 and 265-281: the restart condition.
restart_condition(found, dt, n_messages, utcnow) ==
    /\ found
    /\ dt.tz # "none"
    /\ utcnow - to_naive_utc(dt) > SESSION_RESTART_THRESHOLD
    /\ n_messages > 0

\* session.messages[-settings.memory_buffer_size:]
recent_msgs(log) == ltrim(log, memory_buffer_size)

\* lines 121-128 and 311-317: user -> HumanMessage, assistant -> AIMessage,
\* any other role is skipped.
messages_from_buffer(buf) ==
    LET kept == FilterSeq(buf, [i \in 1..Len(buf) |->
                                   buf[i].role \in {"user", "assistant"}])
    IN [i \in 1..Len(kept) |->
           \* HumanMessage and AIMessage
           [type |-> IF kept[i].role = "user" THEN "human" ELSE "ai",
            content |-> kept[i].content]]

\* token_counter=self._llm: the model's count for one message, its
\* per-message overhead included.
message_tokens(m) ==
    IF m.content = "hi" THEN 2
    ELSE IF m.content = "hello there" THEN 3
    ELSE 5

RECURSIVE count_tokens(_)
count_tokens(msgs) ==
    IF msgs = <<>> THEN 0
    ELSE message_tokens(Head(msgs)) + count_tokens(Tail(msgs))

last_k(msgs, k) == SubSeq(msgs, Len(msgs) - k + 1, Len(msgs))

\* trim_messages, strategy="last": the longest run of last messages whose
\* count fits max_tokens.
last_max_tokens(msgs, max_tokens) ==
    LET fits == {k \in 0..Len(msgs) :
                    count_tokens(last_k(msgs, k)) <= max_tokens}
        k == CHOOSE k \in fits : \A j \in fits : j <= k
    IN last_k(msgs, k)

\* trim_messages, start_on="human": messages before the first HumanMessage
\* of the run are dropped.
RECURSIVE start_on_human(_)
start_on_human(msgs) ==
    IF msgs = <<>> THEN <<>>
    ELSE IF Head(msgs).type = "human" THEN msgs
    ELSE start_on_human(Tail(msgs))

\* A trim that keeps whatever message the run starts with.
trim_messages_any_start(msgs, max_tokens) ==
    last_max_tokens(msgs, max_tokens)

\* lines 140-147 and 319-326.
trim_messages(msgs, max_tokens) ==
    start_on_human(last_max_tokens(msgs, max_tokens))

Loaded(op, found, raised, buf, history, is_restart) ==
    [op |-> op, found |-> found, raised |-> raised, buffer |-> buf,
     history |-> history, is_restart |-> is_restart]

\* find_one(ChatSession.session_id == session_id) found a document: one was
\* inserted by a load, or by background_save_message before its first $push.
session_found == session_exists \/ messages # <<>>

\* lines 53-55 and 265-267: a missing session is inserted, with the defaults
\* of models/chat.py (no messages, updated_at = get_ist_now()).
session_insert ==
    /\ session_exists' = TRUE
    /\ updated_at' = IF session_found THEN updated_at
                     ELSE Stamp(now + utcoffset("ist"), "ist")
    /\ idle_seconds' = IF session_found THEN idle_seconds ELSE 0

\* MemoryService.ensure_session.
ensure_session ==
    /\ \E redis \in {"ok", "raises"} :
          LET seed == recent_msgs(messages)
              returned == IF redis = "ok" /\ buffer # <<>> THEN buffer ELSE seed
          IN /\ buffer' = IF redis = "ok" /\ buffer = <<>> THEN seed ELSE buffer
             /\ loaded' = Loaded("ensure_session", session_found,
                                 redis = "raises", returned, <<>>,
                                 restart_condition(session_found, updated_at,
                                                   Len(messages), now))
    /\ session_insert
    /\ UNCHANGED <<now, memory_token_limit, sumVars, saveVars, citeVars,
                   retrVars>>
    /\ appends' = [appends EXCEPT !.exact = @ /\ buffer' = buffer]
    /\ UNCHANGED <<messages, summary_tasks, last_buffer_op, last_log_op>>
    /\ UNCHANGED <<lockVars, turnVars, reactVars>>

\* MemoryService.get_context.
get_context ==
    /\ \E redis \in {"ok", "raises"} :
          LET \* lines 133-137: user -> HumanMessage, every other role ->
              \* AIMessage.
              log == recent_msgs(messages)
              base == IF redis = "ok" THEN messages_from_buffer(buffer)
                      ELSE [i \in 1..Len(log) |->
                              [type |-> IF log[i].role = "user"
                                        THEN "human" ELSE "ai",
                               content |-> log[i].content]]
              source == IF redis = "ok" THEN buffer ELSE recent_msgs(messages)
          IN loaded' =
                IF ~session_found
                THEN Loaded("get_context", FALSE, FALSE, <<>>, <<>>, FALSE)
                ELSE Loaded("get_context", TRUE, redis = "raises", source,
                            trim_messages(base, memory_token_limit), FALSE)
    /\ UNCHANGED <<session_exists, updated_at, now, idle_seconds,
                   memory_token_limit, sumVars, saveVars, citeVars,
                   retrVars>>
    /\ UNCHANGED <<memVars, lockVars, turnVars, reactVars>>

\* MemoryService.load_session_full.
load_session_full ==
    /\ \E redis \in {"ok", "raises"} :
          LET seed == recent_msgs(messages)
              buf == IF ~session_found THEN <<>>
                     ELSE IF redis = "ok" /\ buffer # <<>> THEN buffer
                     ELSE seed
          IN /\ buffer' = IF session_found /\ redis = "ok" /\ buffer = <<>>
                          THEN seed ELSE buffer
             /\ loaded' = Loaded("load_session_full", session_found,
                                 session_found /\ redis = "raises", buf,
                                 trim_messages(messages_from_buffer(buf),
                                               memory_token_limit),
                                 restart_condition(session_found, updated_at,
                                                   Len(messages), now))
    /\ session_insert
    /\ UNCHANGED <<now, memory_token_limit, sumVars, saveVars, citeVars,
                   retrVars>>
    /\ appends' = [appends EXCEPT !.exact = @ /\ buffer' = buffer]
    /\ UNCHANGED <<messages, summary_tasks, last_buffer_op, last_log_op>>
    /\ UNCHANGED <<lockVars, turnVars, reactVars>>

InitLoad ==
    /\ Idle({"lock", "turn", "react", "sum", "save", "cite",
            "retr"})
    /\ summary_tasks = 0
    /\ last_buffer_op = NoOp
    /\ last_log_op = NoOp
    /\ appends = [tail |-> <<>>, exact |-> FALSE]
    /\ buffer \in BoundedSeq({Msg("user", "hi"), Msg("assistant", "hello there"),
        Msg("user", "a long question")}, MaxBuffered)
    /\ messages \in {<<>>,
        <<Msg("user", "hi"), Msg("assistant", "hello there")>>,
        <<Msg("user", "a long question"), Msg("assistant", "hello there"),
        Msg("user", "hi")>>}
    /\ now = 100000
    /\ memory_token_limit \in 0..MaxTokenLimit
    /\ loaded = NoLoad
    /\ session_exists \in BOOLEAN
    /\ idle_seconds \in {0, 60, 7140, 7200, 7201, 7260, 10800}
    /\ \/ /\ ~session_exists
          /\ messages = <<>>
          /\ idle_seconds = 0
          /\ updated_at = Stamp(0, "none")
       \/ /\ session_exists
          /\ idle_seconds # 0
          /\ \E tz \in {"naive", "utc", "ist"} :
                \* the value the driver hands over for the instant,
                \* in the zone tz
                updated_at = Stamp(now - idle_seconds + utcoffset(tz), tz)

NextLoad ==
    \/ ensure_session
    \/ get_context
    \/ load_session_full

SpecLoad == InitLoad /\ [][NextLoad]_vars

(***************************************************************************)
(* services/chat_memory.py: the fast buffer of one session under a         *)
(* sequence of loads (ensure_session), appends (add_message) and expiries  *)
(* of the key, beside a durable log that holds earlier messages.           *)
(***************************************************************************)
InitBuffer ==
    /\ Idle({"lock", "turn", "react", "load", "sum", "save", "cite", "retr"})
    /\ buffer = <<>>
    /\ messages \in {<<>>,
                      <<Msg("user", "hello"), Msg("assistant", "hello")>>,
                      <<Msg("user", "hello"), Msg("assistant", "hello"),
                        Msg("user", "bye")>>}
    /\ summary_tasks = 0
    /\ last_buffer_op = NoOp
    /\ last_log_op = NoOp
    \* the log holds what was appended before the key last expired
    /\ appends = [tail |-> ltrim(messages, redis_buffer_limit), exact |-> TRUE]

NextBuffer ==
    \/ \E msg \in MessageSet :
          /\ add_message_call(msg)
          /\ appends' =
                IF last_buffer_op'.ok /\ ~last_buffer_op'.appended
                THEN appends
                ELSE [tail |-> IF Len(appends.tail) < redis_buffer_limit
                               THEN Append(appends.tail, msg)
                               ELSE Append(Tail(appends.tail), msg),
                      exact |-> appends.exact /\ last_buffer_op'.ok]
          /\ UNCHANGED <<lockVars, turnVars, reactVars, svcVars>>
    \/ redis_buffer_expire
    \/ ensure_session

SpecBuffer == InitBuffer /\ [][NextBuffer]_vars

(***************************************************************************)
(* services/chat_memory.py: background_update_summary, one task per        *)
(* asyncio.create_task of background_save_message (line 198)               *)
(***************************************************************************)
TaskAt(t, where) == tpc[t] = where

TaskMoves(t, where) == tpc' = [tpc EXCEPT ![t] = where]

\* lines 208-214: find_one(session_id, is_summarizing == False); the task
\* returns when nothing is found or the session holds no message.  An
\* exception goes to the outer handler (line 253), which logs it.
summary_find(t) ==
    /\ TaskAt(t, "created")
    /\ t <= summary_tasks
    /\ \E mongo \in {"ok", "raises"} :
          LET start == mongo = "ok" /\ ~is_summarizing /\ messages # <<>>
          IN /\ TaskMoves(t, IF start THEN "set" ELSE "done")
             /\ tsnap' = [tsnap EXCEPT ![t] = IF start THEN Len(messages)
                                               ELSE @]
             /\ tlog' = [tlog EXCEPT ![t].refused = (mongo = "raises")]
    /\ UNCHANGED <<is_summarizing, summary>>
    /\ Frame({"retr", "mem", "load", "save", "cite"})

\* line 217: session.update({"$set": {"is_summarizing": True}}), a second
\* round trip to the store.  The write can be applied although the call
\* raises.
summary_set(t) ==
    /\ TaskAt(t, "set")
    /\ \E mongo \in {"ok", "raises", "applied_raises"} :
          /\ is_summarizing' = IF mongo = "raises" THEN is_summarizing ELSE TRUE
          /\ TaskMoves(t, IF mongo = "ok" THEN "llm" ELSE "done")
          /\ tlog' = [tlog EXCEPT ![t].took = (mongo # "raises"),
                                  ![t].refused = (mongo # "ok")]
    /\ UNCHANGED <<summary, tsnap>>
    /\ Frame({"retr", "mem", "load", "save", "cite"})

\* lines 221-238: the prompt from the messages the task read, and the call
\* of the model, which returns or raises.
summary_llm(t) ==
    /\ TaskAt(t, "llm")
    /\ \E llm \in {"returns", "raises"} :
          /\ TaskMoves(t, IF llm = "returns" THEN "store" ELSE "reset")
          /\ tlog' = [tlog EXCEPT ![t].llm = llm]
    /\ UNCHANGED <<is_summarizing, summary, tsnap>>
    /\ Frame({"retr", "mem", "load", "save", "cite"})

\* lines 242-244: the summary and is_summarizing = False in one update; when
\* it raises the handler of line 246 runs.
summary_store(t) ==
    /\ TaskAt(t, "store")
    /\ \E mongo \in {"ok", "raises", "applied_raises"} :
          /\ is_summarizing' = IF mongo = "raises" THEN is_summarizing
                               ELSE FALSE
          /\ summary' = IF mongo = "raises" THEN summary ELSE <<tsnap[t]>>
          /\ TaskMoves(t, IF mongo = "ok" THEN "done" ELSE "reset")
          /\ tlog' = [tlog EXCEPT ![t].released = (mongo # "raises"),
                                  ![t].refused = (@ \/ mongo # "ok")]
    /\ UNCHANGED tsnap
    /\ Frame({"retr", "mem", "load", "save", "cite"})

\* A handler that raises the exception again without the reset.
summary_reraise(t) ==
    /\ TaskAt(t, "reset")
    /\ TaskMoves(t, "done")
    /\ UNCHANGED <<is_summarizing, summary, tsnap, tlog>>
    /\ Frame({"retr", "mem", "load", "save", "cite"})

\* lines 246-251: is_summarizing = False, then the exception is raised again
\* and logged by the outer handler; an exception of this update is logged
\* there as well.
summary_reset(t) ==
    /\ TaskAt(t, "reset")
    /\ \E mongo \in {"ok", "raises", "applied_raises"} :
          /\ is_summarizing' = IF mongo = "raises" THEN is_summarizing
                               ELSE FALSE
          /\ tlog' = [tlog EXCEPT ![t].released = (@ \/ mongo # "raises"),
                                  ![t].refused = (@ \/ mongo # "ok")]
    /\ TaskMoves(t, "done")
    /\ UNCHANGED <<summary, tsnap>>
    /\ Frame({"retr", "mem", "load", "save", "cite"})

background_update_summary(t) ==
    \/ summary_find(t)
    \/ summary_set(t)
    \/ summary_llm(t)
    \/ summary_store(t)
    \/ summary_reset(t)

InitSummary ==
    /\ Idle({"lock", "turn", "react", "mem", "sum", "save", "cite",
            "retr"})
    /\ session_exists = FALSE
    /\ updated_at = Stamp(0, "none")
    /\ now = 100000
    /\ idle_seconds = 0
    /\ memory_token_limit = MaxTokenLimit
    /\ loaded = NoLoad

NextSummary ==
    \/ \E msg \in {Msg("user", "hello"), Msg("assistant", "hello")} :
          background_save_message(msg)
    \/ \E t \in SummaryTasks : summary_find(t)
    \/ \E t \in SummaryTasks : summary_set(t)
    \/ \E t \in SummaryTasks : summary_llm(t)
    \/ \E t \in SummaryTasks : summary_store(t)
    \/ \E t \in SummaryTasks : summary_reset(t)
    \/ load_session_full

SpecSummary == InitSummary /\ [][NextSummary]_vars

\* The event loop runs every created task on: each awaited call of the store
\* or of the model returns or raises.
SpecSummaryLive ==
    /\ InitSummary
    /\ [][NextSummary]_vars
    /\ \A t \in SummaryTasks : WF_vars(background_update_summary(t))

(***************************************************************************)
(* nodes/save_memory.py: SaveMemoryNode and its background task            *)
(***************************************************************************)
\* The answers the pipeline can leave in state["response"]; "" is no answer.
ResponseText(k) ==
    IF k = 1 THEN "first answer"
    ELSE IF k = 2 THEN "second answer"
    ELSE "another answer"

\* The message of a turn: state["query"] or state["response"].
TurnMsg(k, role) ==
    IF role = "user"
    THEN Msg("user", IF k = 1 THEN "first question"
                     ELSE IF k = 2 THEN "second question"
                     ELSE "another question")
    ELSE Msg("assistant", response[k])

\* lines 41-42: the two awaited add_message calls, in this order.
buffer_order == <<"user", "assistant">>

\* A task that saves the answer first.
task_order_reversed == <<"assistant", "user">>

\* lines 23-24: the two awaited background_save_message calls of
\* _save_messages_sequentially, in this order.
task_order == <<"user", "assistant">>

SaveMoves(k, where) == spc' = [spc EXCEPT ![k] = where]

Accepts(k, store, role, applied) ==
    accepted' = [accepted EXCEPT
                    ![k] = IF applied THEN @ \cup {<<store, role>>} ELSE @]

\* main.py: the session lock lets one request of a session at a time into
\* the graph, so a turn reaches save_memory when the node of every earlier
\* turn has returned; the background tasks are not waited for.
save_memory_entered(k) ==
    /\ spc[k] = "save_memory"
    /\ \A j \in 1..(k - 1) : spc[j] \notin {"save_memory", "add_second"}

\* lines 36-38: nothing is saved for an empty response.
save_memory_skip(k) ==
    /\ save_memory_entered(k)
    /\ response[k] = ""
    /\ SaveMoves(k, "skipped")
    /\ UNCHANGED <<memVars, accepted>>
    /\ UNCHANGED <<response, seen>>
    /\ Frame({"retr", "load", "sum", "cite"})

\* line 41: await add_message(user_session_id, "user", query).
save_memory_add_first(k) ==
    /\ save_memory_entered(k)
    /\ response[k] # ""
    /\ add_message_call(TurnMsg(k, buffer_order[1]))
    /\ UNCHANGED appends
    /\ Accepts(k, "buffer", buffer_order[1], last_buffer_op'.appended)
    /\ SaveMoves(k, "add_second")
    /\ UNCHANGED <<response, seen>>
    /\ Frame({"retr", "load", "sum", "cite"})

\* A node that awaits the durable write before it returns.
save_memory_awaits_save(k) ==
    /\ spc[k] = "add_second"
    /\ background_save_message_call(TurnMsg(k, task_order[1]), messages)
    /\ Accepts(k, "log", task_order[1], last_log_op'.appended)
    /\ SaveMoves(k, "task_second")
    /\ seen' = [seen EXCEPT ![k] = Len(messages')]
    /\ UNCHANGED response
    /\ Frame({"retr", "load", "sum", "cite"})

\* lines 42-50: await add_message(..., "assistant", response), then
\* create_task(_save_messages_sequentially(...)) and the return of the node.
save_memory_add_second(k) ==
    /\ spc[k] = "add_second"
    /\ add_message_call(TurnMsg(k, buffer_order[2]))
    /\ UNCHANGED appends
    /\ Accepts(k, "buffer", buffer_order[2], last_buffer_op'.appended)
    /\ SaveMoves(k, "task_first")
    /\ seen' = [seen EXCEPT ![k] = Len(messages)]
    /\ UNCHANGED response
    /\ Frame({"retr", "load", "sum", "cite"})

\* line 23, in the background task.  The find_one of the call
\* (chat_memory.py line 179) read the log at some moment since the call
\* began; the tasks of other turns may have appended to it since.
save_task_first(k) ==
    /\ spc[k] = "task_first"
    /\ \E n \in seen[k]..Len(messages) :
          background_save_message_call(TurnMsg(k, task_order[1]),
                                       SubSeq(messages, 1, n))
    /\ seen' = [seen EXCEPT ![k] = Len(messages')]
    /\ Accepts(k, "log", task_order[1], last_log_op'.appended)
    /\ SaveMoves(k, "task_second")
    /\ UNCHANGED response
    /\ Frame({"retr", "load", "sum", "cite"})

\* line 24, in the background task.
save_task_second(k) ==
    /\ spc[k] = "task_second"
    /\ \E n \in seen[k]..Len(messages) :
          background_save_message_call(TurnMsg(k, task_order[2]),
                                       SubSeq(messages, 1, n))
    /\ seen' = [seen EXCEPT ![k] = 0]
    /\ Accepts(k, "log", task_order[2], last_log_op'.appended)
    /\ SaveMoves(k, "done")
    /\ UNCHANGED response
    /\ Frame({"retr", "load", "sum", "cite"})

\* The turns of the session reach save_memory one after the other and their
\* background tasks outlive the requests.
InitSave ==
    /\ Idle({"lock", "turn", "react", "mem", "load", "sum", "cite",
            "retr"})
    /\ response \in [Turns -> {""} \cup {ResponseText(k) : k \in Turns}]
    /\ \A k \in Turns : response[k] \in {"", ResponseText(k)}
    /\ spc = [k \in Turns |-> "save_memory"]
    /\ seen = [k \in Turns |-> 0]
    /\ accepted = [k \in Turns |-> {}]

NextSave ==
    \/ \E k \in Turns : save_memory_skip(k)
    \/ \E k \in Turns : save_memory_add_first(k)
    \/ \E k \in Turns : save_memory_add_second(k)
    \/ \E k \in Turns : save_task_first(k)
    \/ \E k \in Turns : save_task_second(k)
    \/ redis_buffer_expire

SpecSave == InitSave /\ [][NextSave]_vars

(***************************************************************************)
(* tools/retrieval_tool.py format_documents, services/citation_service.py  *)
(* extract_citations and the citations of a turn.  Scores are in           *)
(* thousandths.                                                            *)
(***************************************************************************)
\* Documents one retrieval returns and retrieval steps the loop adds.
MaxDocs == 2
MaxSteps == 1

\* agents/student_agent.py line 210 and nodes/retrieve_documents.py line 92.
CITATION_MIN_SCORE == 400

\* state.py Document: id, score, metadata["lecture_id"], metadata["subject"].
Retrieved(id, score, lecture_id, subject) ==
    [id |-> id, score |-> score, lecture_id |-> lecture_id,
     subject |-> subject]

\* The index answers with its best matches first.
DocLists ==
    {q \in BoundedSeq(
       { Retrieved(<<"vec_", "a">>, 905, Some(101), Some("Biology")),
        Retrieved(<<"vec_", "b">>, 396, Some(101), None),
        Retrieved(<<"vec_", "c">>, 300, Some(103), Some("Physics")),
        Retrieved(<<"vec_", "d">>, 850, None, Some("Chemistry")),
        Retrieved(<<"vec_", "e">>, 700, Some(102), None) }, MaxDocs) :
        \A i, j \in 1..Len(q) : i < j => q[i].score > q[j].score}

\* A line of an observation: a line that holds "Score:", "[" and "]", a
\* line "<name>: <value>", or any other line.
ScoreLine(prefix, label, score) ==
    [kind |-> "score", prefix |-> prefix, label |-> label, text |-> score]
FieldLine(name, value) == [kind |-> "field", name |-> name, text |-> value]
OtherLine(what) == [kind |-> "other", name |-> what, text |-> ""]

\* {score:.2f}: two decimals.
format_score(score) == ((score + 5) \div 10) * 10

RECURSIVE format_from(_, _)
format_from(docs, i) ==
    IF i > Len(docs) \/ i > 5 THEN <<>>
    ELSE LET lecture_id == docs[i].lecture_id
             subject == docs[i].subject
         IN << ScoreLine("", i, format_score(docs[i].score)),
               FieldLine("Lecture ID", IF lecture_id = None THEN "N/A"
                                       ELSE ToString(lecture_id[1])),
               FieldLine("Subject", IF subject = None THEN "N/A"
                                    ELSE subject[1]),
               OtherLine("Content") >>
            \o format_from(docs, i + 1)

\* RetrievalTool.format_documents (retrieval_tool.py lines 109-136).
format_documents(docs) ==
    IF docs = <<>> THEN <<OtherLine("No documents found.")>>
    ELSE <<OtherLine("Found")>> \o format_from(docs, 1)

\* The observation scripts/verify_citation_linking.py expects of
\* format_documents(docs, min_score): lines "Source i [Score: s]" and no
\* line of metadata.
format_sources(docs) ==
    IF docs = <<>> THEN <<OtherLine("No documents found.")>>
    ELSE [i \in 1..Len(docs) |->
             ScoreLine("Source ", i, format_score(docs[i].score))]

\* A step of the reasoning chain.  docs and style are history: the
\* documents the observation was built from and the way it lists them.
Step(action, observation, docs, style) ==
    [action |-> action, observation |-> observation, docs |-> docs,
     style |-> style]

doc_score(doc) == IF doc.score = None THEN 0 ELSE doc.score[1]

\* lines 43-49 and 105-111: the document read so far becomes a citation
\* when it has a lecture id and its score reaches min_score.
flush_doc(doc, citations, min_score) ==
    IF doc.lecture_id # None /\ doc_score(doc) >= min_score
    THEN Append(citations,
                [id |-> <<"doc_", doc.lecture_id[1]>>,
                 score |-> doc_score(doc),
                 lecture_id |-> doc.lecture_id, subject |-> doc.subject])
    ELSE citations

\* lines 37-102: a score line closes a document that has a lecture id and
\* starts the next one (a document without a lecture id is not reset, line
\* 50 is inside the branch of line 43); a field line sets its field unless
\* its value is N/A.
RECURSIVE parse_lines(_, _, _, _)
parse_lines(lines, doc, citations, min_score) ==
    IF lines = <<>> THEN flush_doc(doc, citations, min_score)
    ELSE LET line == Head(lines)
             closes == doc.lecture_id # None
         IN IF line.kind = "score"
            THEN parse_lines(Tail(lines),
                    [(IF closes
                      THEN [score |-> None, lecture_id |-> None,
                            subject |-> None]
                      ELSE doc)
                        EXCEPT !.score = Some(line.text)],
                    IF closes THEN flush_doc(doc, citations, min_score)
                    ELSE citations,
                    min_score)
            ELSE IF line.kind = "field" /\ line.text # "N/A"
            THEN parse_lines(Tail(lines),
                    IF line.name = "Lecture ID"
                    THEN [doc EXCEPT !.lecture_id = Some(line.text)]
                    ELSE [doc EXCEPT !.subject = Some(line.text)],
                    citations, min_score)
            ELSE parse_lines(Tail(lines), doc, citations, min_score)

\* lines 26-31: the steps whose action is retrieve_documents, in order.
RECURSIVE parse_steps(_, _, _)
parse_steps(steps_left, citations, min_score) ==
    IF steps_left = <<>> THEN citations
    ELSE parse_steps(Tail(steps_left),
            IF Head(steps_left).action = "retrieve_documents"
            THEN parse_lines(Head(steps_left).observation,
                             [score |-> None, lecture_id |-> None,
                              subject |-> None],
                             citations, min_score)
            ELSE citations,
            min_score)

\* CitationService.extract_citations; lines 113-120: the first citation of
\* each lecture id stays.
extract_citations(steps_of_chain, min_score) ==
    LET citations == parse_steps(steps_of_chain, <<>>, min_score)
    IN FilterSeq(citations,
          [i \in 1..Len(citations) |->
              \A j \in 1..(i - 1) :
                 citations[j].lecture_id # citations[i].lecture_id])

\* nodes/retrieve_documents.py lines 89-101 and 154-168: the documents of
\* at least 0.40, their citations, and the prefilled observation, which
\* react_agent.py (lines 123-130) records as a step of the chain.  The
\* observation is format_documents(docs, min_score=0.40); it lists the
\* documents of at least 0.40 in either of the two layouts.
citations_retrieve_documents ==
    /\ cpc = "retrieve"
    /\ \E docs \in DocLists, style \in {"numbered", "source"} :
          LET shown == FilterSeq(docs,
                          [i \in 1..Len(docs) |->
                              docs[i].score >= CITATION_MIN_SCORE])
              text == IF style = "source" THEN format_sources(shown)
                      ELSE format_documents(shown)
              \* lines 154-168
              citations ==
                 [i \in 1..Len(shown) |->
                    [id |-> shown[i].id, score |-> shown[i].score,
                     lecture_id |->
                        IF shown[i].lecture_id = None THEN None
                        ELSE Some(ToString(shown[i].lecture_id[1])),
                     subject |-> shown[i].subject]]
          IN /\ documents_found' = docs
             /\ turn_citations' = merge_citations(turn_citations, citations)
             /\ reasoning_chain' =
                   IF docs = <<>> THEN <<>>
                   ELSE <<Step("retrieve_documents", text, shown, style)>>
    /\ cpc' = "loop"
    /\ UNCHANGED <<extracted, min_score_used, tool_steps>>
    /\ Frame({"retr", "mem", "load", "sum", "save"})

\* A retrieval of the loop: RetrievalTool.execute (retrieval_tool.py lines
\* 95-104) lists every document it got.
citations_retrieval_step ==
    /\ cpc \in {"loop", "loop_again"}
    /\ tool_steps < MaxSteps
    /\ \E docs \in DocLists :
          reasoning_chain' =
             Append(reasoning_chain,
                    Step("retrieve_documents", format_documents(docs), docs,
                         "numbered"))
    /\ tool_steps' = tool_steps + 1
    /\ UNCHANGED <<documents_found, extracted, min_score_used,
                   turn_citations, cpc>>
    /\ Frame({"retr", "mem", "load", "sum", "save"})

\* A web search of the loop: a step whose action is not retrieve_documents.
citations_web_step ==
    /\ cpc \in {"loop", "loop_again"}
    /\ tool_steps < MaxSteps
    /\ reasoning_chain' =
          Append(reasoning_chain,
                 Step("web_search",
                      <<ScoreLine("", 1, 990), FieldLine("Lecture ID", "999")>>,
                      <<>>, "numbered"))
    /\ tool_steps' = tool_steps + 1
    /\ UNCHANGED <<documents_found, extracted, min_score_used,
                   turn_citations, cpc>>
    /\ Frame({"retr", "mem", "load", "sum", "save"})

\* The end of an agent's run: student_agent.py lines 204-213 (min_score
\* 0.4, state["citations"] replaced when the list is not empty),
\* teacher_agent.py lines 101-107 and interactive_student_agent.py lines
\* 265-268 (the default min_score 0.0); the node's update goes through
\* merge_citations.
citations_extract ==
    /\ cpc \in {"loop", "loop_again"}
    /\ \E agent \in {"student", "teacher"} :
          LET min_score == IF agent = "student" THEN CITATION_MIN_SCORE ELSE 0
              found == extract_citations(reasoning_chain, min_score)
              update == IF agent = "student" /\ found = <<>>
                        THEN turn_citations ELSE found
          IN /\ extracted' = found
             /\ min_score_used' = min_score
             /\ turn_citations' = merge_citations(turn_citations, update)
    /\ cpc' = IF cpc = "loop" THEN "done" ELSE "done_again"
    /\ UNCHANGED <<documents_found, reasoning_chain, tool_steps>>
    /\ Frame({"retr", "mem", "load", "sum", "save"})

\* graph.py: after a failed validation the agent runs once more, with the
\* prefilled observation at the head of a new chain.
citations_retry ==
    /\ cpc = "done"
    /\ reasoning_chain' = IF reasoning_chain = <<>> THEN <<>>
                          ELSE <<reasoning_chain[1]>>
    /\ cpc' = "loop_again"
    /\ UNCHANGED <<documents_found, extracted, min_score_used, turn_citations,
                   tool_steps>>
    /\ Frame({"retr", "mem", "load", "sum", "save"})

InitCitations ==
    /\ Idle({"lock", "turn", "react", "mem", "load", "sum", "save",
            "retr"})
    /\ documents_found = <<>>
    /\ reasoning_chain = <<>>
    /\ extracted = <<>>
    /\ min_score_used = 0
    /\ turn_citations = <<>>
    /\ tool_steps = 0
    /\ cpc = "retrieve"

NextCitations ==
    \/ citations_retrieve_documents
    \/ citations_retrieval_step
    \/ citations_web_step
    \/ citations_extract
    \/ citations_retry

SpecCitations == InitCitations /\ [][NextCitations]_vars

(***************************************************************************)
(* services/retriever.py RetrieverService.retrieve: the result cache, the  *)
(* metadata filter and the query of the index.  A Python value carries its *)
(* type and, by it, a number, the characters of a string or the items of a *)
(* list.                                                                   *)
(***************************************************************************)
MaxFilterItems == 2

Value(type, n, s, items) ==
    [type |-> type, n |-> n, s |-> s, items |-> items]

\* line 150 and line 154.
WHITELIST ==
    {"class_id", "class_name", "subject", "subject_id", "lecture_id",
     "teacher_id", "teacher_name", "transcript_id", "is_ingested", "topics",
     "chapter"}

INT_FIELDS ==
    {"class_id", "subject_id", "lecture_id", "teacher_id", "transcript_id",
     "chunk_index"}

\* Python's int(value): an int is itself; a string is the decimal number it
\* spells between surrounding blanks, with an optional sign, and raises
\* ValueError when it spells none; None raises TypeError.  None stands for
\* the exception.
int(value) ==
    IF value.type = "int" THEN Some(value.n)
    ELSE IF value.type # "str" THEN None
    ELSE LET s == value.s
             inked == {i \in 1..Len(s) : s[i] # " "}
             stripped == IF inked = {} THEN <<>>
                         ELSE SubSeq(s, CHOOSE i \in inked :
                                           \A j \in inked : i <= j,
                                        CHOOSE i \in inked :
                                           \A j \in inked : i >= j)
             signed == stripped # <<>> /\ stripped[1] \in {"-", "+"}
             digits == IF signed THEN Tail(stripped) ELSE stripped
             digit == [c \in {"0", "1", "2", "3", "4", "5", "6", "7", "8",
                              "9"} |->
                         CASE c = "0" -> 0 [] c = "1" -> 1 [] c = "2" -> 2
                           [] c = "3" -> 3 [] c = "4" -> 4 [] c = "5" -> 5
                           [] c = "6" -> 6 [] c = "7" -> 7 [] c = "8" -> 8
                           [] c = "9" -> 9]
             RECURSIVE number(_)
             number(d) == IF d = <<>> THEN 0
                          ELSE 10 * number(SubSeq(d, 1, Len(d) - 1))
                               + digit[d[Len(d)]]
         IN IF digits = <<>>
               \/ \E i \in 1..Len(digits) : digits[i] \notin DOMAIN digit
            THEN None
            ELSE Some(IF signed /\ stripped[1] = "-" THEN 0 - number(digits)
                      ELSE number(digits))

\* lines 145-191: the filter handed to the index.  A key outside the
\* whitelist is skipped; a string under an integer field is cast, and the
\* key skipped when the cast raises; a dict is passed as it is, a list
\* becomes $in (each element of a list under an integer field cast, and
\* kept as it is when the cast raises), anything else becomes $eq.
metadata_filter(filters) ==
    LET cast(key) == key \in INT_FIELDS /\ filters[key].type = "str"
        kept == {key \in DOMAIN filters :
                    /\ key \in WHITELIST
                    /\ cast(key) => int(filters[key]) # None}
    IN [key \in kept |->
          LET value == IF cast(key)
                       THEN Value("int", int(filters[key])[1], <<>>, <<>>)
                       ELSE filters[key]
          IN IF value.type = "dict" THEN [op |-> "", value |-> value]
             ELSE IF value.type = "list"
             THEN [op |-> "$in",
                   value |->
                     IF key \in INT_FIELDS
                     THEN Value("list", 0, <<>>,
                            [i \in 1..Len(value.items) |->
                               IF int(value.items[i]) # None
                               THEN Value("int", int(value.items[i])[1],
                                          <<>>, <<>>)
                               ELSE value.items[i]])
                     ELSE value]
             ELSE [op |-> "$eq", value |-> value]]

\* The filter maps of the requests: scalars, and lists of scalars, under a
\* whitelisted integer field, a whitelisted text field and a field that is
\* not whitelisted.  The lists are the longer the fewer keys the map has.
FilterMaps ==
    LET scalars == {Value("int", 7, <<>>, <<>>)}
                   \cup {Value("str", 0, s, <<>>) :
                            s \in {<<"7">>, <<" ", "-", "1", "7">>,
                                   <<"7", "x">>}}
                   \cup {Value("none", 0, <<>>, <<>>)}
        values(n) == scalars \cup {Value("dict", 0, <<>>, <<>>)}
                     \cup {Value("list", 0, <<>>, l) :
                              l \in BoundedSeq(scalars, n)}
    IN UNION {[D -> values(MaxFilterItems - 2 * (Cardinality(D) - 1))] :
                D \in SUBSET {"class_id", "subject", "chunk_index"}}

\* A retrieve that stores the list it returns whatever happened.
retrieve_storing_failures(query_en, cache_up, raises, matches) ==
    LET cached_docs == IF cache_up /\ query_en \in DOMAIN result_cache
                       THEN result_cache[query_en]
                       ELSE <<>>
        filter == metadata_filter(retrieve_filters)
        source == IF cached_docs # <<>> THEN "cache"
                  ELSE IF raises = "embed" THEN "embed_raised"
                  ELSE IF raises = "query" THEN "query_raised"
                  ELSE "index"
        documents == IF source = "cache" THEN cached_docs
                     ELSE IF source = "index" THEN matches
                     ELSE <<>>
    IN /\ last_retrieve' =
             \* history: where the documents of the call came from, what
             \* was sent to the index (line 223: None for an empty filter),
             \* and whether the call before it raised on the same query
             Some([query |-> query_en, source |-> source,
                   sent |-> IF source \notin {"query_raised", "index"}
                            THEN None
                            ELSE Some(IF DOMAIN filter # {} THEN Some(filter)
                                      ELSE None),
                   documents |-> documents,
                   after_failure |->
                      /\ last_retrieve # None
                      /\ last_retrieve[1].query = query_en
                      /\ last_retrieve[1].source \in {"embed_raised",
                                                      "query_raised"}])
       /\ result_cache' =
             IF source # "cache" /\ cache_up
             THEN [k \in DOMAIN result_cache \cup {query_en} |->
                     IF k = query_en THEN documents ELSE result_cache[k]]
             ELSE result_cache
       /\ UNCHANGED retrieve_filters
       /\ Frame({"mem", "load", "sum", "save", "cite"})

\* lines 95-269, one call.  CacheService.get answers None when the key is
\* missing or the cache is down, and an empty list counts as a miss (line
\* 131); a failure of the embedding (lines 138-143) or of the query (lines
\* 235-243) returns [] at once; CacheService.set is called for a list that
\* is not empty (line 266) and swallows its own failure.
retrieve(query_en, cache_up, raises, matches) ==
    LET cached_docs == IF cache_up /\ query_en \in DOMAIN result_cache
                       THEN result_cache[query_en]
                       ELSE <<>>
        filter == metadata_filter(retrieve_filters)
        source == IF cached_docs # <<>> THEN "cache"
                  ELSE IF raises = "embed" THEN "embed_raised"
                  ELSE IF raises = "query" THEN "query_raised"
                  ELSE "index"
        documents == IF source = "cache" THEN cached_docs
                     ELSE IF source = "index" THEN matches
                     ELSE <<>>
    IN /\ last_retrieve' =
             \* history: where the documents of the call came from, what
             \* was sent to the index (line 223: None for an empty filter),
             \* and whether the call before it raised on the same query
             Some([query |-> query_en, source |-> source,
                   sent |-> IF source \notin {"query_raised", "index"}
                            THEN None
                            ELSE Some(IF DOMAIN filter # {} THEN Some(filter)
                                      ELSE None),
                   documents |-> documents,
                   after_failure |->
                      /\ last_retrieve # None
                      /\ last_retrieve[1].query = query_en
                      /\ last_retrieve[1].source \in {"embed_raised",
                                                      "query_raised"}])
       /\ result_cache' =
             IF source = "index" /\ documents # <<>> /\ cache_up
             THEN [k \in DOMAIN result_cache \cup {query_en} |->
                     IF k = query_en THEN documents ELSE result_cache[k]]
             ELSE result_cache
       /\ UNCHANGED retrieve_filters
       /\ Frame({"mem", "load", "sum", "save", "cite"})

\* The entry of a query expires (ttl=3600, line 267).
result_cache_expire(query_en) ==
    /\ query_en \in DOMAIN result_cache
    /\ result_cache' = [k \in DOMAIN result_cache \ {query_en} |->
                          result_cache[k]]
    /\ UNCHANGED <<retrieve_filters, last_retrieve>>
    /\ Frame({"mem", "load", "sum", "save", "cite"})

InitRetriever ==
    /\ Idle({"lock", "turn", "react", "mem", "load", "sum", "save", "cite"})
    /\ retrieve_filters \in FilterMaps
    /\ result_cache = <<>>
    /\ last_retrieve = None

NextRetriever ==
    \/ \E query_en \in {"photosynthesis", "osmosis"}, cache_up \in BOOLEAN,
          raises \in {"", "embed", "query"} :
          \E matches \in IF raises # "" THEN {<<>>}
                          ELSE {<<>>, <<Doc("vec_a", 905)>>} :
             retrieve(query_en, cache_up, raises, matches)
    \/ \E query_en \in {"photosynthesis", "osmosis"} :
          result_cache_expire(query_en)

SpecRetriever == InitRetriever /\ [][NextRetriever]_vars

(***************************************************************************)
(* Claims about the session lock (SpecLock)                                *)
(***************************************************************************)
SameSession(r1, r2) == r1 # r2 /\ reqSession[r1] = reqSession[r2]

InPipeline(r) == pc[r] = "graph"

C1_Exclusion ==
    \A r1, r2 \in Requests :
        (SameSession(r1, r2) /\ InPipeline(r1) /\ InPipeline(r2))
            => \/ expiredOnce[reqSession[r1]]
               \/ degraded[r1]
               \/ degraded[r2]

C1_Rejected ==
    \A r \in Requests :
        (pc[r] = "start" /\ pc'[r] # "start" /\ lockKey[reqSession[r]]
            /\ ~degraded'[r])
        => (outcome'[r] = "conflict" /\ pc'[r] = "done" /\ ~lock_acquired'[r]
            /\ lockKey' = lockKey)

Finishing(r) == pc[r] = "finally" /\ pc'[r] = "done" /\ lock_acquired[r]

C37_AsStated ==
    [][\A r \in Requests :
          (Finishing(r) /\ lockOwner[reqSession[r]] # r)
             => /\ lockKey'[reqSession[r]] = lockKey[reqSession[r]]
                /\ lockOwner'[reqSession[r]] = lockOwner[reqSession[r]]]_vars

(***************************************************************************)
(* Claims about one turn (SpecTurn)                                        *)
(***************************************************************************)
TurnEnded == pc[TurnReq] \in {"finally", "done"} /\ outcome[TurnReq] # "conflict"

C5_AsStated ==
    pc[TurnReq] = "done"
        => outcome[TurnReq] \in {"response", "conflict", "timeout"}

ExpectedResponder ==
    IF st.query_type = "conversational" THEN "conversational"
    ELSE IF user_type = "teacher" THEN "teacher"
    ELSE IF agent_mode = "interactive" THEN "interactive"
    ELSE "student"

\* C21: the agents invoked in a turn are all of one kind, the kind that
\* the query type, the role and the mode select (conversational; else
\* teacher for a teacher; else interactive in interactive mode; else
\* student); a turn that reaches END was answered by that kind, and a
\* retry invokes the kind of the first attempt.
C21_OneResponder ==
    /\ hist.responders \subseteq {ExpectedResponder}
    /\ node = "END" => hist.responders = {ExpectedResponder}
    /\ hist.agent_runs >= 1 => hist.last_run.agent = hist.first_agent

\* A teacher in interactive mode, answered by the teacher agent twice.
C21_Witness ==
    /\ node = "END"
    /\ user_type = "teacher"
    /\ agent_mode = "interactive"
    /\ hist.agent_runs = 2
    /\ hist.responders = {"teacher"}

EducationalAgents ==
    {"student_agent", "interactive_student_agent", "teacher_agent"}

\* The order of the states of a turn as the claim gives it.
StatedEdge(from, to) ==
    \/ from = "load_memory" /\ to = "analyze_query"
    \/ from = "analyze_query"
          /\ to \in {"conversational_agent", "prepare_educational_flow"}
    \/ from = "conversational_agent" /\ to = "translate_response"
    \/ from = "translate_response" /\ to = "save_memory"
    \/ from = "prepare_educational_flow" /\ to = "retrieve_documents"
    \/ from = "retrieve_documents" /\ to = "route_educational_user"
    \/ from = "route_educational_user" /\ to \in EducationalAgents
    \/ from \in EducationalAgents /\ to = "translate_response_educational"
    \/ from = "translate_response_educational" /\ to = "groundedness_check"
    \/ from = "groundedness_check"
          /\ to \in {"save_memory", "route_educational_user"}
    \/ from = "save_memory" /\ to = "END"

\* C22: a turn that does not hit the turn timeout runs Persist once, as
\* its last state before Done, and moves between its states only along
\* LoadMemory -> Classify -> ConversationalAgent -> Translate -> Persist or
\* Classify -> Prepare -> Retrieve -> RouteByRole -> agent -> Translate ->
\* Validate -> {Persist, RouteByRole}: Retrieve is entered once, before the
\* first agent, and a conversational turn enters neither Retrieve nor
\* Validate.
C22_AsStated ==
    /\ [](TurnEnded /\ hist.cause # "timeout"
             => hist.persisted /\ node = "END")
    /\ [][node' # node => StatedEdge(node, node')]_vars

\* C23: a step of the validation gate calls the validator only on a
\* non-empty response that is not the fixed fallback message; when it does
\* not call it, no verdict is recorded and the turn goes on to save_memory.
C23_AsStated ==
    [][node = "groundedness_check" /\ node' \notin {node, "raised"}
         => IF hist'.validations > hist.validations
            THEN st.response.kind \notin {"empty", "fallback"}
            ELSE /\ st'.validation_results = st.validation_results
                 /\ node' = "save_memory"]_vars

\* The retrieval step has just run.
RetrievalRan == hist.retrieval.ran /\ node = "route_educational_user"

C30_AsStated ==
    RetrievalRan =>
        LET r == hist.retrieval
            kept == high_score_docs(r.found)
        IN ((r.web_search = "parallel_timeout" /\ r.rag # "timeout")
              \/ r.web_search = "reactive_timeout")
           => /\ st.documents = kept
              /\ \A i \in 1..Len(kept) :
                    \E j \in 1..Len(st.citations) : st.citations[j] = kept[i]
              /\ r.rag_quality =
                    IF r.found = <<>> THEN "low"
                    ELSE IF r.found[1].score > 65 THEN "high"
                    ELSE IF r.found[1].score > 45 THEN "medium"
                    ELSE "low"

\* C33: the llm_calls a turn reports is the number of LLM invocations its
\* states made: the classification, the calls of the reasoning loop with
\* the synthesis call, the validation, the translation and the
\* conversational reply.
C33_AsStated ==
    outcome[TurnReq] = "response" => st.llm_calls = hist.llm_invocations

\* C36: a request that ends with the conflict outcome has had no effect on
\* the session: it is over without a finally block to run, no node of the
\* pipeline has run and the state of the turn is the initial one, nothing
\* was written to the fast buffer or the durable log, and the lock is
\* still the one of the in-flight request.
C36_ConflictNoEffect ==
    outcome[TurnReq] = "conflict" =>
       /\ pc[TurnReq] = "done"
       /\ ~lock_acquired[TurnReq]
       /\ node = "load_memory" /\ steps = 0
       /\ st = InitialState /\ hist = InitialHist
       /\ buffer = <<>> /\ messages = <<>>
       /\ \E r \in Requests \ {TurnReq} :
             /\ pc[r] = "graph"
             /\ lock_acquired[r]
             /\ lockKey[reqSession[r]]
             /\ lockOwner[reqSession[r]] = r

\* The request was rejected while another request of its session was inside
\* the pipeline.
C36_Witness ==
    /\ outcome[TurnReq] = "conflict"
    /\ \E r \in Requests \ {TurnReq} :
          reqSession[r] = reqSession[TurnReq] /\ pc[r] = "graph"

\* C39: for every turn that returns a response, save_memory has run and
\* what it handed to memory is the query of the request as it was asked,
\* followed by exactly the message returned to the user, the text after
\* translation and after any correction retry; it handed over nothing
\* exactly when the returned message is empty.
C39_SavedIsReturned ==
    outcome[TurnReq] = "response" =>
       /\ hist.persisted
       /\ hist.written =
             IF hist.message.kind = "empty" THEN <<>>
             ELSE <<Msg("user", Text("query", language)),
                    Msg("assistant", hist.message)>>

\* The returned message is the translated answer of a correction retry.
C39_Witness ==
    /\ outcome[TurnReq] = "response"
    /\ hist.fail_edges > 0
    /\ language # "en"
    /\ hist.message.kind = "answer"
    /\ hist.message.lang = language
    /\ hist.written # <<>>

(***************************************************************************)
(* Claims about the reasoning loop (SpecReact, SpecReactLive)              *)
(***************************************************************************)
RunEnded == rpc \in {"returned", "raised"}

NoDuplicates(q) == \A i, j \in 1..Len(q) : q[i] = q[j] => i = j

LoopBounds ==
    /\ loop_llm_calls <= max_iterations
    /\ synthesis_calls <= 1
    /\ NoDuplicates(executions)

\* C6 (as stated): run makes at most max_iterations tool-enabled LLM calls
\* and at most one synthesis call, executes no tool call twice, and what it
\* returns is a non-empty answer with an iteration count in
\* 1..max_iterations.
C6_AsStated ==
    /\ LoopBounds
    /\ rpc = "returned" =>
          /\ run_result.answer.kind # "empty"
          /\ run_result.iterations \in 1..max_iterations

C6_Answer ==
    rpc = "returned" =>
        /\ run_result.iterations \in 1..max_iterations
        /\ run_result.answer.kind \in {"answer", "synthesis", "fallback", "empty"}
        /\ run_result.answer.kind = "answer" =>
              /\ synthesis_calls = 0
              /\ run_result.iterations = loop_llm_calls
        /\ run_result.answer.kind = "synthesis" =>
              /\ synthesis_calls = 1
              /\ run_result.iterations = max_iterations
        /\ run_result.answer.kind = "fallback" =>
              /\ run_result.answer = FALLBACK_MESSAGE
              /\ synthesis_calls = 0
              /\ loop_llm_calls = max_iterations
              /\ ~has_observations(scratchpad)
        /\ run_result.answer.kind = "empty" =>
              \/ synthesis_calls = 1
              \/ run_result.iterations = loop_llm_calls

\* C6 (amended): every run ends, after at most max_iterations tool-enabled
\* LLM calls and at most one synthesis call and without executing any tool
\* call twice; an exception leaves it only when an LLM call raised; what it
\* returns is the model's final text, the synthesis text or the fixed
\* fallback message, with an iteration count in 1..max_iterations, and it is
\* empty only when it is the model's own (final or synthesis) text.
C6_BoundedRun ==
    /\ [](LoopBounds /\ C6_Answer /\ (rpc = "raised" => run_result.status = "llm"))
    /\ <>RunEnded

C6_Witness ==
    /\ rpc = "returned"
    /\ loop_llm_calls = max_iterations
    /\ synthesis_calls = 1
    /\ run_result.answer.kind = "synthesis"
    /\ Len(executions) >= max_iterations
    /\ \A i \in 1..Len(executions) :
          \E f \in raised_calls : f.id = executions[i]

MessagesOf(id) ==
    {j \in 1..Len(tool_messages) : tool_messages[j].tool_call_id = id}

C7_Observed ==
    /\ rpc = "raised" => run_result.status = "llm"
    /\ \A f \in raised_calls :
          \E j \in MessagesOf(f.id) :
              tool_messages[j].content = Obs("Error: ", f.message)
    /\ \A i \in 1..Len(executions) :
          Cardinality(MessagesOf(executions[i])) = 1
    /\ \A j \in 1..Len(tool_messages) :
          tool_messages[j].content.kind = "Error: " =>
              \E f \in raised_calls : f.id = tool_messages[j].tool_call_id

C7_LoopGoesOn == rpc = "tools" => rpc' \in {"tools", "llm", "after_loop"}

\* C7: when the execution of a tool call raises (a tool name that is not
\* registered included), the observation of that call is "Error: " followed
\* by the message of the exception, every other executed call of the batch
\* has its own observation, the loop goes on to its next LLM call, and no
\* exception leaves run because of a tool.
C7_ToolErrorsObserved == []C7_Observed /\ [][C7_LoopGoesOn]_vars

C7_Witness ==
    \E f \in raised_calls :
        /\ f.message = "Tool not found"
        /\ \E j \in 1..Len(tool_messages) :
              /\ tool_messages[j].tool_call_id # f.id
              /\ tool_messages[j].tool_call_id[1] = f.id[1]
              /\ tool_messages[j].content.kind = "documents"
        /\ loop_llm_calls > f.id[1]

\* The filters the request asks for: the request filters without the
\* placeholder key, None when nothing is left.
ExpectedFilters ==
    LET clean == request_filters \ {"additionalProp1"} IN
    IF clean # {} THEN Some(clean) ELSE None

\* C9 (as stated): every retrieve_documents call of a run sends to the
\* retriever the filters given by the request filters alone, whatever
\* arguments the model wrote into the tool call, also when the request
\* filters are empty.
C9_AsStated ==
    /\ \A c \in retriever_calls : c.filters = ExpectedFilters
    /\ \A c1, c2 \in retriever_calls : c1.filters = c2.filters

\* C25: the coroutines of all k tool calls of a response are started
\* together; no call of the model is made while one of them has not ended;
\* when the last has ended exactly k tool messages are appended, the i-th
\* with the id of the i-th call and the observation of that call, whatever
\* the order in which the coroutines ended.
C25_GatheredInOrder ==
    /\ [](rpc = "tools" => /\ tool_calls # <<>>
                           /\ started = 1..Len(tool_calls))
    /\ [][ /\ (loop_llm_calls' # loop_llm_calls
                  \/ synthesis_calls' # synthesis_calls) => started = {}
           /\ (rpc = "tools" /\ rpc' \notin {"tools", "raised"})
                 => tool_messages' # tool_messages
           /\ tool_messages' # tool_messages =>
                 LET k == Len(tool_calls)
                     n == Len(tool_messages)
                 IN /\ {finished[j].call : j \in 1..Len(finished)} = 1..k
                    /\ Len(tool_messages') = n + k
                    /\ SubSeq(tool_messages', 1, n) = tool_messages
                    /\ \A i \in 1..k :
                          /\ tool_messages'[n + i].tool_call_id = tool_calls[i].id
                          /\ \E j \in 1..k :
                                /\ finished[j].call = i
                                /\ tool_messages'[n + i].content =
                                      finished[j].outcome.observation ]_vars

\* Two tools were called in one iteration, the second ended first, and the
\* two messages stand in the order of the calls.
C25_Witness ==
    /\ rpc \in {"llm", "after_loop"}
    /\ Len(finished) = 2
    /\ finished[1].call = 2
    /\ finished[1].outcome.observation # finished[2].outcome.observation
    /\ LET n == Len(tool_messages) IN
          /\ n >= 2
          /\ tool_messages[n - 1].tool_call_id[2] = 1
          /\ tool_messages[n].tool_call_id[2] = 2
          /\ tool_messages[n].content = finished[1].outcome.observation

\* The step taken after the last iteration ended without a final answer
\* makes one synthesis call and returns its text, or makes none and returns
\* the fixed fallback message.
AfterLoop(synthesize) ==
    IF synthesize
    THEN /\ synthesis_calls' = synthesis_calls + 1
         /\ rpc' = "returned" =>
               run_result'.answer.kind \in {"synthesis", "empty"}
    ELSE /\ synthesis_calls' = synthesis_calls
         /\ rpc' = "returned"
         /\ run_result'.answer = FALLBACK_MESSAGE

\* C24 (as stated): when the iteration bound is reached without a final
\* answer, one synthesis call is made if and only if some collected
\* observation is non-empty, and its text is returned; otherwise the fixed
\* fallback message is returned without a further LLM call.
C24_AsStated ==
    [][rpc = "after_loop"
         => AfterLoop(\E i \in 1..Len(scratchpad) :
                         scratchpad[i].observation.kind # "")]_vars

\* C24 (amended): when the iteration bound is reached without a final
\* answer, one synthesis call is made if and only if some collected
\* observation is non-empty and does not contain the text NO_DOCS_FOUND,
\* and its text is returned unless the call raises; otherwise, also when
\* every non-empty observation contains NO_DOCS_FOUND, the fixed fallback
\* message is returned without a further LLM call.
C24_Synthesis ==
    [][rpc = "after_loop"
         => AfterLoop(\E i \in 1..Len(scratchpad) :
                         /\ scratchpad[i].observation.kind # ""
                         /\ scratchpad[i].observation.kind # "NO_DOCS_FOUND")]_vars

C24_Witness ==
    /\ rpc = "returned"
    /\ run_result.answer = FALLBACK_MESSAGE
    /\ synthesis_calls = 0
    /\ loop_llm_calls = max_iterations
    /\ \E i \in 1..Len(scratchpad) :
          scratchpad[i].observation.kind = "NO_DOCS_FOUND"

EndOf(part, whole) ==
    /\ Len(part) <= Len(whole)
    /\ \A i \in 1..Len(part) : part[i] = whole[Len(whole) - Len(part) + i]

HistoryLoaded == loaded.op \in {"get_context", "load_session_full"}

SameMessage(base, msg) ==
    /\ base.content = msg.content
    /\ (base.type = "human") <=> (msg.role = "user")

IsSuffixOf(history, source) ==
    /\ Len(history) <= Len(source)
    /\ \A i \in 1..Len(history) :
          SameMessage(history[i], source[Len(source) - Len(history) + i])

RestartComputed == loaded.op \in {"ensure_session", "load_session_full"}

\* C12: a load flags a session restart exactly when the session was found,
\* holds at least one message and was last updated more than 7200 seconds
\* ago; 119 minutes give false, 121 minutes give true, and a new or empty
\* session gives false.
C12_RestartBoundary ==
    RestartComputed =>
       /\ loaded.is_restart <=>
             ( /\ loaded.found
               /\ Len(messages) >= 1
               /\ idle_seconds > 7200 )
       /\ idle_seconds = 119 * 60 => ~loaded.is_restart
       /\ (loaded.found /\ messages # <<>> /\ idle_seconds = 121 * 60)
             => loaded.is_restart
       /\ (~loaded.found \/ messages = <<>>) => ~loaded.is_restart

\* ensure_session flagged a session with messages that was updated 121
\* minutes ago, its updated_at being an aware IST value.
C12_Witness ==
    /\ loaded.op = "ensure_session"
    /\ loaded.is_restart
    /\ idle_seconds = 121 * 60
    /\ updated_at.tz = "ist"
    /\ messages # <<>>

\* The history of the most recent memory_buffer_size durable messages.
SeededHistory ==
    trim_messages(messages_from_buffer(recent_msgs(messages)),
                  memory_token_limit)

\* C26 (as stated): in a load step that starts with an empty buffer and a
\* non-empty durable log, ensure_session, when Redis answers, leaves in
\* the buffer the most recent memory_buffer_size durable messages in their
\* order, and get_context returns the token-trimmed form of those messages,
\* whether it runs before ensure_session or after it.
C26_AsStated ==
    [][ /\ (/\ loaded = NoLoad
            /\ buffer = <<>>
            /\ messages # <<>>
            /\ loaded'.op = "ensure_session"
            /\ ~loaded'.raised) => buffer' = recent_msgs(messages)
       /\ (/\ messages # <<>>
            /\ loaded'.op = "get_context"
            /\ \/ loaded = NoLoad /\ buffer = <<>>
               \/ /\ loaded.op = "ensure_session"
                  /\ ~loaded.raised
                  /\ loaded.buffer = recent_msgs(messages)
                  /\ buffer = loaded.buffer)
              => loaded'.history = SeededHistory ]_vars

(***************************************************************************)
(* Claims about the durable log and summarization (SpecSummary)            *)
(***************************************************************************)
ExtendedAtItsEnd ==
    /\ Len(messages') >= Len(messages)
    /\ \A i \in 1..Len(messages) : messages'[i] = messages[i]

\* C13: in every step of every operation on a session (a save, a dropped
\* duplicate, a step of a summarization that succeeds or fails, a load) the
\* durable message log keeps every message it holds, in place and
\* unchanged, and at most grows at its end.
C13_AppendOnly == [][ExtendedAtItsEnd]_vars

\* The log holds several messages, a duplicate save was dropped last, a
\* summary was stored, a summarization was refused by the store and the
\* session was loaded.
C13_Witness ==
    /\ Len(messages) >= 2
    /\ last_log_op.kind = "background_save_message"
    /\ last_log_op.ok
    /\ ~last_log_op.appended
    /\ summary # <<>>
    /\ \E t \in SummaryTasks : tlog[t].refused
    /\ loaded.op = "load_session_full"
    /\ loaded.found

\* A task is between its set of is_summarizing and the end of its reset.
Summarizing(t) == tpc[t] \in {"llm", "store", "reset"}

\* C14: under every interleaving of the summarization tasks of a session,
\* at most one task is between setting is_summarizing to true and
\* resetting it.
C14_AsStated ==
    \A t1, t2 \in SummaryTasks :
       (Summarizing(t1) /\ Summarizing(t2)) => t1 = t2

TaskEnded(t) == tpc[t] = "done"

UserBeforeAssistant(list, k) ==
    \A i, j \in 1..Len(list) :
       (list[i] = TurnMsg(k, "assistant") /\ list[j] = TurnMsg(k, "user"))
          => j < i

\* C16: for every persisted turn the append of the user message to the
\* fast buffer is over before the assistant message is appended, the write
\* of the user message to the durable log is over before the assistant
\* message is written, both stores hold the two messages of a turn in that
\* order, and the log holds both whenever it accepted both; a turn without
\* a response writes nothing.
C16_UserBeforeAssistant ==
    \A k \in Turns :
       /\ UserBeforeAssistant(buffer, k)
       /\ UserBeforeAssistant(messages, k)
       /\ <<"buffer", "assistant">> \in accepted[k]
             => spc[k] \in {"task_first", "task_second", "done"}
       /\ <<"log", "assistant">> \in accepted[k] => spc[k] = "done"
       /\ <<"log", "user">> \in accepted[k]
             => spc[k] \in {"task_second", "done"}
       /\ {<<"log", "user">>, <<"log", "assistant">>} \subseteq accepted[k]
             => \E i, j \in 1..Len(messages) :
                   /\ i < j
                   /\ messages[i] = TurnMsg(k, "user")
                   /\ messages[j] = TurnMsg(k, "assistant")
       /\ spc[k] = "skipped" => accepted[k] = {}

\* The background tasks of two turns ran interleaved: the log holds the two
\* user messages and then the two assistant messages.
C16_Witness ==
    /\ \A k \in {1, 2} : spc[k] = "done"
    /\ Len(messages) >= 4
    /\ messages[1] = TurnMsg(1, "user")
    /\ messages[2] = TurnMsg(2, "user")
    /\ messages[3] = TurnMsg(1, "assistant")
    /\ messages[4] = TurnMsg(2, "assistant")
    /\ <<"buffer", "assistant">> \in accepted[1]

\* C27 (as stated): a durable append that the store does not refuse
\* schedules one summarization task exactly when it has written its
\* message and the durable log then holds a multiple of SummaryEvery
\* messages, also when the appends of two turns interleave; an append that
\* is dropped as a duplicate schedules none.
C27_AsStated ==
    [][\A k \in Turns :
          (spc[k] \in {"task_first", "task_second"} /\ spc'[k] # spc[k]
             /\ last_log_op'.ok)
          => /\ summary_tasks' \in {summary_tasks, summary_tasks + 1}
             /\ summary_tasks' = summary_tasks + 1
                   <=> /\ messages' # messages
                       /\ Len(messages') % SummaryEvery = 0]_vars

\* C28: the steps of save_memory up to its return write the fast buffer
\* only, never the durable log, and schedule no summary; the steps of the
\* background task, whether the durable store accepts, refuses or delays
\* a write, leave the response of every turn and the fast buffer as they
\* are and move nothing but their own task, which goes on to its next
\* step.
C28_FireAndForget ==
    [][\A k \in Turns :
          /\ response'[k] = response[k]
          /\ (spc[k] \in {"save_memory", "add_second"} /\ spc'[k] # spc[k])
                => /\ messages' = messages
                   /\ summary_tasks' = summary_tasks
                   /\ last_log_op' = last_log_op
                   /\ spc'[k] \in {"skipped", "add_second", "task_first"}
          /\ (spc[k] \in {"task_first", "task_second"} /\ spc'[k] # spc[k])
                => /\ buffer' = buffer
                   /\ spc'[k] = IF spc[k] = "task_first" THEN "task_second"
                                ELSE "done"
                   /\ \A j \in Turns \ {k} : spc'[j] = spc[j]]_vars

\* The node of the second turn has returned and its task has ended after a
\* write the store refused, while the task of the first turn has not yet
\* written anything.
C28_Witness ==
    /\ spc[1] = "task_first"
    /\ spc[2] = "done"
    /\ response[1] = ResponseText(1)
    /\ response[2] = ResponseText(2)
    /\ ~last_log_op.ok
    /\ \A i \in 1..Len(messages) : messages[i] # TurnMsg(1, "user")
    /\ \E i \in 1..Len(buffer) : buffer[i] = TurnMsg(1, "assistant")

\* The turn a message of the log belongs to.
TurnOf(msg) ==
    CHOOSE k \in Turns : msg \in {TurnMsg(k, "user"), TurnMsg(k, "assistant")}

\* C35 (as stated): the durable log lists the messages in the order in
\* which the turns were accepted: the messages of turn k precede those of
\* every later turn and the user and assistant messages of one turn are
\* adjacent, also when a later turn is accepted while the background task
\* of turn k is still running.
C35_AsStated ==
    /\ \A i, j \in 1..Len(messages) :
          i < j => TurnOf(messages[i]) <= TurnOf(messages[j])
    /\ \A k \in Turns : \A i, j \in 1..Len(messages) :
          (messages[i] = TurnMsg(k, "user")
             /\ messages[j] = TurnMsg(k, "assistant")) => j = i + 1

\* C38 (as stated): a turn whose save_memory node has returned has added
\* to the fast buffer either both its user message and its assistant
\* message or neither of them, and nothing when its response is empty, also
\* when a write to the buffer fails or is dropped as a duplicate.
C38_AsStated ==
    \A k \in Turns :
       spc[k] \in {"skipped", "task_first", "task_second", "done"} =>
          /\ <<"buffer", "user">> \in accepted[k]
                <=> <<"buffer", "assistant">> \in accepted[k]
          /\ response[k] = "" => accepted[k] = {}

(***************************************************************************)
(* Claims about citations (SpecCitations)                                  *)
(***************************************************************************)
Extracted == cpc \in {"done", "done_again"}

RetrievalSteps ==
    {n \in 1..Len(reasoning_chain) :
        reasoning_chain[n].action = "retrieve_documents"}

\* C17: when an observation lists n documents as "Source i [Score: s]",
\* citation extraction returns for every i in 1..n a citation that has the
\* id and the metadata of the i-th document of the list the observation
\* was built from.
C17_AsStated ==
    Extracted =>
       \A n \in RetrievalSteps :
          reasoning_chain[n].style = "source" =>
             \A i \in 1..Len(reasoning_chain[n].docs) :
                \E j \in 1..Len(extracted) :
                   /\ extracted[j].id = reasoning_chain[n].docs[i].id
                   /\ extracted[j].subject = reasoning_chain[n].docs[i].subject

NoDuplicateIds(citations) ==
    \A i, j \in 1..Len(citations) :
       citations[i].id = citations[j].id => i = j

C19_AsStated ==
    Extracted =>
       \A i \in 1..Len(turn_citations) :
          turn_citations[i].score >= CITATION_MIN_SCORE

\* C20: the list citation extraction returns is ordered by score, highest
\* first: of two adjacent citations the earlier has a score at least that
\* of the later.
C20_AsStated ==
    Extracted =>
       \A i \in 1..(Len(extracted) - 1) :
          extracted[i].score >= extracted[i + 1].score


(***************************************************************************)
(* Claims about the retriever (SpecRetriever)                              *)
(***************************************************************************)
\* The filter the last call of retrieve sent to the index: none is the
\* empty one.
SentFilter ==
    IF last_retrieve = None \/ last_retrieve[1].sent = None
       \/ last_retrieve[1].sent[1] = None
    THEN [key \in {} |-> 0]
    ELSE last_retrieve[1].sent[1][1]

QueriedIndex ==
    last_retrieve # None /\ last_retrieve[1].sent # None

\* The elements of a list under an identifier field as the filter is said
\* to hold them: a string converted, or left out when it spells no number.
RECURSIVE ConvertedOrDropped(_)
ConvertedOrDropped(l) ==
    IF l = <<>> THEN <<>>
    ELSE (IF Head(l).type # "str" THEN <<Head(l)>>
          ELSE IF int(Head(l)) = None THEN <<>>
          ELSE <<Value("int", int(Head(l))[1], <<>>, <<>>)>>)
         \o ConvertedOrDropped(Tail(l))

\* C31: the filter sent to the index holds only whitelisted keys, a scalar
\* as an equality and a list as a membership filter; a string under an
\* identifier field is sent as the integer it spells; a string that spells
\* none is left out of the filter, be it the value of the key or an element
\* of its list.
C31_AsStated ==
    QueriedIndex =>
       LET given == retrieve_filters
           unconvertible(key) == /\ key \in INT_FIELDS
                                 /\ given[key].type = "str"
                                 /\ int(given[key]) = None
       IN /\ DOMAIN SentFilter =
                {key \in DOMAIN given \cap WHITELIST : ~unconvertible(key)}
          /\ \A key \in DOMAIN SentFilter :
                CASE given[key].type = "dict" -> TRUE
                  [] given[key].type = "list" ->
                       SentFilter[key] =
                          [op |-> "$in",
                           value |-> IF key \in INT_FIELDS
                                     THEN Value("list", 0, <<>>,
                                            ConvertedOrDropped(
                                               given[key].items))
                                     ELSE given[key]]
                  [] OTHER ->
                       SentFilter[key] =
                          [op |-> "$eq",
                           value |-> IF key \in INT_FIELDS
                                        /\ given[key].type = "str"
                                     THEN Value("int", int(given[key])[1],
                                                <<>>, <<>>)
                                     ELSE given[key]]


====
